---- MODULE Spec2Model ----
(***************************************************************************)
(* Model of the FCommunityBE route handlers (friend graph, DM and group    *)
(* chat sessions, message log) over the external Redis store.  Every       *)
(* handler runs as its own worker; each awaited store command is one       *)
(* atomic step, and the commands of one Promise.all land in any order.     *)
(***************************************************************************)
EXTENDS Integers, Sequences, FiniteSets, TLC

\* ---------------------------------------------------------------- bounds
MaxProcs == 2
MaxChats == 2
MaxMsgs == 2
MaxClock == 2
MaxList == 3

\* ------------------------------------------------------------- universes
Users == {"a", "b", "c"}
\* the two users whose friend requests SpecFriends follows
FriendUsers == {"a", "b"}
NoUser == "-"
\* the key chat:null:* that a template string builds from a null chatId
NullChat == 0
ChatIds == 1..MaxChats
ChatKeys == {NullChat} \cup ChatIds
Procs == 1..MaxProcs
Texts == {"hi", ""}

VARIABLES
  friends,    \* user:<id>:friends                     (set)
  requests,   \* user:<id>:incoming_friend_requests    (set)
  dms,        \* user:<id>:dms                         (hash friendId -> chatId)
  groups,     \* user:<id>:groups                      (set)
  members,    \* chat:<id>:members                     (set)
  meta,       \* chat:<id>:meta                        (hash)
  messages,   \* chat:<id>:messages                    (sorted set)
  clock,      \* Date.now()
  nextChat,   \* number of chat ids randomUUID() has handed out
  usedMsgs,   \* message ids randomUUID() has handed out
  procs,      \* the handlers in flight
  resp        \* the response sent by the last step, NoResp if it sent none

store == <<friends, requests, dms, groups, members, meta, messages>>
vars == <<friends, requests, dms, groups, members, meta, messages,
          clock, nextChat, usedMsgs, procs, resp>>

NoMsg == [id |-> 0, senderId |-> NoUser, text |-> "", timestamp |-> 0]
NoStr == [enc |-> 0, val |-> NoMsg]

\* an absent hash: no field is set
NoMeta == [type |-> "", name |-> <<>>, createdAt |-> 0, createdBy |-> NoUser,
           user1 |-> NoUser, user2 |-> NoUser, updatedAt |-> 0,
           lastMessage |-> NoStr]

Idle == [op |-> "idle", pc |-> "", me |-> NoUser, other |-> NoUser,
         chat |-> NullChat, w |-> {}, list |-> <<>>, msg |-> NoMsg,
         ts |-> 0, lo |-> 0, hi |-> 0, name |-> <<>>]

NoResp == [op |-> "none", me |-> NoUser, other |-> NoUser, chat |-> NullChat,
           status |-> 0, body |-> "", cid |-> NullChat, msgs |-> <<>>]

Proc(op, pc, me, other, chat) ==
  [Idle EXCEPT !.op = op, !.pc = pc, !.me = me, !.other = other, !.chat = chat]

Response(op, me, other, chat, status, body) ==
  [NoResp EXCEPT !.op = op, !.me = me, !.other = other, !.chat = chat,
                 !.status = status, !.body = body]

\* the handler of slot p returns r
Return(p, r) ==
  /\ procs' = [procs EXCEPT ![p] = Idle]
  /\ resp' = r

\* the handler of slot p goes on to q without answering
Goto(p, q) ==
  /\ procs' = [procs EXCEPT ![p] = q]
  /\ resp' = NoResp

Quiescent == \A p \in Procs : procs[p] = Idle

Init ==
  /\ friends = [u \in Users |-> {}]
  /\ requests = [u \in Users |-> {}]
  /\ dms = [u \in Users |-> [v \in Users |-> NullChat]]
  /\ groups = [u \in Users |-> {}]
  /\ members = [c \in ChatKeys |-> {}]
  /\ meta = [c \in ChatKeys |-> NoMeta]
  /\ messages = [c \in ChatKeys |-> <<>>]
  /\ clock = 1
  /\ nextChat = 0
  /\ usedMsgs = {}
  /\ procs = [p \in Procs |-> Idle]
  /\ resp = NoResp

\* ------------------------------------------------------------------------
\* Friend graph: friends/add, friends/accept, friends/deny
\* ------------------------------------------------------------------------

\* SendRequestStart without the test for oneself
SendRequestToAnyone(p) ==
  /\ procs[p] = Idle
  /\ \E s \in FriendUsers, t \in FriendUsers \cup {NoUser} :
       IF t = NoUser
       THEN Return(p, Response("sendRequest", s, t, NullChat, 400,
                               "This person does not exist"))
       ELSE Goto(p, Proc("sendRequest", "isAlreadyAdded", s, t, NullChat))
  /\ UNCHANGED <<store, clock, nextChat, usedMsgs>>

\* friends/add: resolve the email, reject an unknown address and oneself
SendRequestStart(p) ==
  /\ procs[p] = Idle
  /\ \E s \in FriendUsers, t \in FriendUsers \cup {NoUser} :
       IF t = NoUser
       THEN Return(p, Response("sendRequest", s, t, NullChat, 400,
                               "This person does not exist"))
       ELSE IF t = s
       THEN Return(p, Response("sendRequest", s, t, NullChat, 400,
                               "You cannot add yourself as a friend"))
       ELSE Goto(p, Proc("sendRequest", "isAlreadyAdded", s, t, NullChat))
  /\ UNCHANGED <<store, clock, nextChat, usedMsgs>>

\* friends/add: sismember user:<idToAdd>:incoming_friend_requests
SendRequestIsAlreadyAdded(p) ==
  LET q == procs[p] IN
  /\ q.op = "sendRequest" /\ q.pc = "isAlreadyAdded"
  /\ IF q.me \in requests[q.other]
     THEN Return(p, Response("sendRequest", q.me, q.other, NullChat, 400,
                             "Already added this user"))
     ELSE Goto(p, [q EXCEPT !.pc = "isAlreadyFriends"])
  /\ UNCHANGED <<store, clock, nextChat, usedMsgs>>

\* friends/add: sismember user:<me>:friends
SendRequestIsAlreadyFriends(p) ==
  LET q == procs[p] IN
  /\ q.op = "sendRequest" /\ q.pc = "isAlreadyFriends"
  /\ IF q.other \in friends[q.me]
     THEN Return(p, Response("sendRequest", q.me, q.other, NullChat, 400,
                             "Already friends with this user"))
     ELSE Goto(p, [q EXCEPT !.pc = "trigger"])
  /\ UNCHANGED <<store, clock, nextChat, usedMsgs>>

\* friends/add: the awaited pusher trigger; when it throws the handler answers
\* 400 before the insert, otherwise the sadd is issued without await and the
\* handler answers OK while the command is still on its way
SendRequestTrigger(p) ==
  LET q == procs[p] IN
  /\ q.op = "sendRequest" /\ q.pc = "trigger"
  /\ \E published \in BOOLEAN :
       IF published
       THEN /\ procs' = [procs EXCEPT ![p] = [q EXCEPT !.pc = "sadd"]]
            /\ resp' = Response("sendRequest", q.me, q.other, NullChat, 200, "OK")
       ELSE Return(p, Response("sendRequest", q.me, q.other, NullChat, 400,
                               "Invalid request"))
  /\ UNCHANGED <<store, clock, nextChat, usedMsgs>>

\* friends/add: the un-awaited sadd reaches the store
SendRequestSadd(p) ==
  LET q == procs[p] IN
  /\ q.op = "sendRequest" /\ q.pc = "sadd"
  /\ requests' = [requests EXCEPT ![q.other] = @ \cup {q.me}]
  /\ Goto(p, Idle)
  /\ UNCHANGED <<friends, dms, groups, members, meta, messages,
                 clock, nextChat, usedMsgs>>

\* friends/accept: the request of the accepter a for the sender s
AcceptRequestStart(p) ==
  /\ procs[p] = Idle
  /\ \E a \in FriendUsers, s \in FriendUsers :
       Goto(p, Proc("acceptRequest", "areAlreadyFriends", a, s, NullChat))
  /\ UNCHANGED <<store, clock, nextChat, usedMsgs>>

\* friends/accept: sismember user:<me>:friends
AcceptRequestAreAlreadyFriends(p) ==
  LET q == procs[p] IN
  /\ q.op = "acceptRequest" /\ q.pc = "areAlreadyFriends"
  /\ IF q.other \in friends[q.me]
     THEN Return(p, Response("acceptRequest", q.me, q.other, NullChat, 400,
                             "Already friends"))
     ELSE Goto(p, [q EXCEPT !.pc = "hasFriendRequest"])
  /\ UNCHANGED <<store, clock, nextChat, usedMsgs>>

\* AcceptRequestHasFriendRequest without the check: the writes are issued
\* whether a request is pending or not
AcceptRequestNoRequestCheck(p) ==
  LET q == procs[p] IN
  /\ q.op = "acceptRequest" /\ q.pc = "hasFriendRequest"
  /\ Goto(p, [q EXCEPT !.pc = "write", !.w = {1, 2, 3}])
  /\ UNCHANGED <<store, clock, nextChat, usedMsgs>>

\* friends/accept: sismember user:<me>:incoming_friend_requests, then the two
\* profile reads (profiles of existing users are never deleted)
AcceptRequestHasFriendRequest(p) ==
  LET q == procs[p] IN
  /\ q.op = "acceptRequest" /\ q.pc = "hasFriendRequest"
  /\ IF q.other \notin requests[q.me]
     THEN Return(p, Response("acceptRequest", q.me, q.other, NullChat, 400,
                             "No friend request"))
     ELSE Goto(p, [q EXCEPT !.pc = "write", !.w = {1, 2, 3}])
  /\ UNCHANGED <<store, clock, nextChat, usedMsgs>>

\* the friend sets after command k of the accept's Promise.all
AcceptFriends(q, k) ==
  IF k = 1 THEN [friends EXCEPT ![q.me] = @ \cup {q.other}]
  ELSE IF k = 2 THEN [friends EXCEPT ![q.other] = @ \cup {q.me}]
  ELSE friends

\* the request sets after command k of the accept's Promise.all
AcceptRequests(q, k) ==
  IF k = 3 THEN [requests EXCEPT ![q.me] = @ \ {q.other}]
  ELSE requests

\* friends/accept: one command of Promise.all([sadd, sadd, srem]) lands
AcceptRequestWrite(p) ==
  LET q == procs[p] IN
  /\ q.op = "acceptRequest" /\ q.pc = "write"
  /\ \E k \in q.w :
       /\ friends' = AcceptFriends(q, k)
       /\ requests' = AcceptRequests(q, k)
       /\ Goto(p, [q EXCEPT !.w = @ \ {k},
                            !.pc = IF q.w = {k} THEN "trigger" ELSE "write"])
  /\ UNCHANGED <<dms, groups, members, meta, messages, clock, nextChat, usedMsgs>>

\* both events with the profile of the user whose channel they go to
AcceptEventsOwnProfile(q) ==
  <<[channel |-> q.other, event |-> "new_friend", data |-> q.other],
    [channel |-> q.me, event |-> "new_friend", data |-> q.me]>>

\* the events of an accept in the order of their triggers: the accepter's
\* profile on the sender's channel, then the sender's on the accepter's
AcceptEvents(q) ==
  <<[channel |-> q.other, event |-> "new_friend", data |-> q.me],
    [channel |-> q.me, event |-> "new_friend", data |-> q.other]>>

\* friends/accept: the two awaited pusher triggers, then OK; a trigger that
\* throws is caught by the handler's catch and answered 500, with the events
\* before it published.  The answer carries the events the call has emitted.
AcceptRequestTrigger(p) ==
  LET q == procs[p] IN
  /\ q.op = "acceptRequest" /\ q.pc = "trigger"
  /\ \E published \in 0..2 :
       Return(p, [(IF published = 2
                   THEN Response("acceptRequest", q.me, q.other, NullChat, 200, "OK")
                   ELSE Response("acceptRequest", q.me, q.other, NullChat, 500,
                                 "Invalid request"))
                    EXCEPT !.msgs = SubSeq(AcceptEvents(q), 1, published)])
  /\ UNCHANGED <<store, clock, nextChat, usedMsgs>>

\* a deny that takes the sender out of the caller's friends as well
DenyRequestUnfriend(p) ==
  /\ procs[p] = Idle
  /\ \E a \in FriendUsers, s \in FriendUsers :
       /\ requests' = [requests EXCEPT ![a] = @ \ {s}]
       /\ friends' = [friends EXCEPT ![a] = @ \ {s}]
       /\ Return(p, Response("denyRequest", a, s, NullChat, 200, "OK"))
  /\ UNCHANGED <<dms, groups, members, meta, messages,
                 clock, nextChat, usedMsgs>>

\* friends/deny (the handler with the documented route): one srem
DenyRequest(p) ==
  /\ procs[p] = Idle
  /\ \E a \in FriendUsers, s \in FriendUsers :
       /\ requests' = [requests EXCEPT ![a] = @ \ {s}]
       /\ Return(p, Response("denyRequest", a, s, NullChat, 200, "OK"))
  /\ UNCHANGED <<friends, dms, groups, members, meta, messages,
                 clock, nextChat, usedMsgs>>

\* friends/deny (the handler in friends/deny/route.ts): a header that starts
\* with "Bearer " is answered 401; with any other scheme the token is verified
\* and the srem goes to the key user:<id>:incoming)_friend_requests, which no
\* handler reads or writes
DenyRequestBearer(p) ==
  /\ procs[p] = Idle
  /\ \E a \in FriendUsers, s \in FriendUsers, bearer \in BOOLEAN :
       Return(p, IF bearer
                 THEN Response("denyRequestBearer", a, s, NullChat, 401, "Unauthorized")
                 ELSE Response("denyRequestBearer", a, s, NullChat, 200, "OK"))
  /\ UNCHANGED <<store, clock, nextChat, usedMsgs>>

FriendsStep(p) ==
  \/ SendRequestStart(p)
  \/ SendRequestIsAlreadyAdded(p)
  \/ SendRequestIsAlreadyFriends(p)
  \/ SendRequestTrigger(p)
  \/ SendRequestSadd(p)
  \/ AcceptRequestStart(p)
  \/ AcceptRequestAreAlreadyFriends(p)
  \/ AcceptRequestHasFriendRequest(p)
  \/ AcceptRequestWrite(p)
  \/ AcceptRequestTrigger(p)
  \/ DenyRequest(p)
  \/ DenyRequestBearer(p)

NextFriends == \E p \in Procs : FriendsStep(p)

SpecFriends == Init /\ [][NextFriends]_vars

\* ------------------------------------------------------------------------
\* DM sessions: chat/dms/get-or-create, in its two versions.  The version
\* reading body.userId writes the metadata under the new chat id; the version
\* reading body.friendId writes it under chat:${chatId}:meta with the chatId
\* that hget has just returned as null.
\* ------------------------------------------------------------------------

DMOps == {"getOrCreateDM", "getOrCreateDMFriendId"}

\* the commands of the Promise.all, numbered in source order
DMWrites(op) == IF op = "getOrCreateDM" THEN 1..8 ELSE 1..7

\* the key the metadata commands of the Promise.all write to
DMMetaKey(q) == IF q.op = "getOrCreateDM" THEN q.chat ELSE NullChat

GetOrCreateDMStart(p, op) ==
  /\ procs[p] = Idle
  /\ \E c \in Users, o \in Users :
       Goto(p, Proc(op, "isFriend", c, o, NullChat))
  /\ UNCHANGED <<store, clock, nextChat, usedMsgs>>

\* GetOrCreateDMIsFriend without the check: every caller goes on to the index
GetOrCreateDMNoFriendCheck(p) ==
  LET q == procs[p] IN
  /\ q.op \in DMOps /\ q.pc = "isFriend"
  /\ Goto(p, [q EXCEPT !.pc = "hget"])
  /\ UNCHANGED <<store, clock, nextChat, usedMsgs>>

\* sismember user:<me>:friends
GetOrCreateDMIsFriend(p) ==
  LET q == procs[p] IN
  /\ q.op \in DMOps /\ q.pc = "isFriend"
  /\ IF q.other \notin friends[q.me]
     THEN Return(p, Response(q.op, q.me, q.other, NullChat, 401, "Unauthorized"))
     ELSE Goto(p, [q EXCEPT !.pc = "hget"])
  /\ UNCHANGED <<store, clock, nextChat, usedMsgs>>

\* hget user:<me>:dms: an existing chat id is returned as it is, otherwise
\* randomUUID() names a new chat and the commands of the Promise.all are issued
GetOrCreateDMHget(p) ==
  LET q == procs[p] IN
  /\ q.op \in DMOps /\ q.pc = "hget"
  /\ IF dms[q.me][q.other] # NullChat
     THEN /\ Return(p, [Response(q.op, q.me, q.other, dms[q.me][q.other], 200, "chatId")
                          EXCEPT !.cid = dms[q.me][q.other]])
          /\ UNCHANGED nextChat
     ELSE /\ nextChat < MaxChats
          /\ nextChat' = nextChat + 1
          /\ Goto(p, [q EXCEPT !.pc = "write", !.chat = nextChat + 1,
                               !.ts = clock, !.w = DMWrites(q.op)])
  /\ UNCHANGED <<store, clock, usedMsgs>>

\* DMWriteIndex without the entry of the other participant
DMWriteIndexCallerOnly(q, k) ==
  IF k = 1 THEN [dms EXCEPT ![q.me][q.other] = q.chat]
  ELSE dms

\* the DM index after command k: the entries of both participants
DMWriteIndex(q, k) ==
  IF k = 1 THEN [dms EXCEPT ![q.me][q.other] = q.chat]
  ELSE IF k = 2 THEN [dms EXCEPT ![q.other][q.me] = q.chat]
  ELSE dms

\* the membership sets after command k
DMWriteMembers(q, k) ==
  IF k = 3 THEN [members EXCEPT ![q.chat] = @ \cup {q.me, q.other}]
  ELSE members

\* the metadata hashes after command k
DMWriteMeta(q, k) ==
  LET key == DMMetaKey(q) IN
  IF k = 4 THEN [meta EXCEPT ![key].type = "dms"]
  ELSE IF k = 5 THEN [meta EXCEPT ![key].createdAt = q.ts]
  ELSE IF k = 6 THEN [meta EXCEPT ![key].user1 = q.me]
  ELSE IF k = 7 THEN [meta EXCEPT ![key].user2 = q.other]
  ELSE IF k = 8 THEN [meta EXCEPT ![key].updatedAt = q.ts]
  ELSE meta

\* one command of the Promise.all lands; after the last the handler returns
\* the new chat id
GetOrCreateDMWrite(p) ==
  LET q == procs[p] IN
  /\ q.op \in DMOps /\ q.pc = "write"
  /\ \E k \in q.w :
       /\ dms' = DMWriteIndex(q, k)
       /\ members' = DMWriteMembers(q, k)
       /\ meta' = DMWriteMeta(q, k)
       /\ IF q.w = {k}
          THEN Return(p, [Response(q.op, q.me, q.other, q.chat, 200, "chatId")
                            EXCEPT !.cid = q.chat])
          ELSE Goto(p, [q EXCEPT !.w = @ \ {k}])
  /\ UNCHANGED <<friends, requests, groups, messages, clock, nextChat, usedMsgs>>

\* a and b have become friends; c has no friends
InitDM ==
  /\ Init!2 /\ Init!3 /\ Init!4 /\ Init!5 /\ Init!6 /\ Init!7 /\ Init!8
  /\ Init!9 /\ Init!10 /\ Init!11 /\ Init!12
  /\ friends = [u \in Users |-> IF u = "a" THEN {"b"}
                                ELSE IF u = "b" THEN {"a"} ELSE {}]

DMStep(p) ==
  \/ GetOrCreateDMStart(p, "getOrCreateDM")
  \/ GetOrCreateDMIsFriend(p)
  \/ GetOrCreateDMHget(p)
  \/ GetOrCreateDMWrite(p)

NextDM == \E p \in Procs : DMStep(p)

\* concurrent get-or-create calls
SpecDM == InitDM /\ [][NextDM]_vars

\* a is a friend of b and of c; b and c are not friends
InitDMSeq ==
  /\ Init!2 /\ Init!3 /\ Init!4 /\ Init!5 /\ Init!6 /\ Init!7 /\ Init!8
  /\ Init!9 /\ Init!10 /\ Init!11 /\ Init!12
  /\ friends = [u \in Users |-> IF u = "c" THEN {"a"}
                                ELSE IF u = "a" THEN {"b", "c"} ELSE {"a"}]

NextDMSeq ==
  \/ GetOrCreateDMStart(1, "getOrCreateDM")
  \/ GetOrCreateDMStart(1, "getOrCreateDMFriendId")
  \/ GetOrCreateDMIsFriend(1)
  \/ GetOrCreateDMHget(1)
  \/ GetOrCreateDMWrite(1)

\* get-or-create calls of both versions, one after the other
SpecDMSeq == InitDMSeq /\ [][NextDMSeq]_vars

\* ------------------------------------------------------------------------
\* Group sessions: chat/group/create, add-member, remove-member, leave
\* ------------------------------------------------------------------------

RECURSIVE SeqsOver(_, _)
\* the sequences over S of length at most n
SeqsOver(S, n) ==
  IF n = 0 THEN {<<>>}
  ELSE LET shorter == SeqsOver(S, n - 1) IN
       shorter \cup {Append(l, x) : l \in shorter, x \in S}

\* body.members as the client may send it: any list, repetitions included
MemberLists == SeqsOver(Users, MaxList)

Range(l) == {l[i] : i \in 1..Len(l)}

\* members.filter(Boolean), then the creator pushed unless the list includes it
MemberList(creator, list) ==
  IF creator \in Range(list) THEN list ELSE Append(list, creator)

\* chat/group/create: the list is normalised and its length checked, then
\* randomUUID() names the chat and the commands of the Promise.all are issued:
\* 1 the sadd of the members, 2 the hset of the metadata, 2+i the sadd of the
\* chat to the groups of memberList[i]
CreateGroupStart(p, U, L) ==
  /\ procs[p] = Idle
  /\ \E creator \in U, list \in L :
       LET memberList == MemberList(creator, list) IN
       IF Len(memberList) <= 2
       THEN /\ Return(p, Response("createGroup", creator, NoUser, NullChat, 400,
                                  "Group chat requires more than 2 members"))
            /\ UNCHANGED nextChat
       ELSE /\ nextChat < MaxChats
            /\ nextChat' = nextChat + 1
            /\ Goto(p, [Proc("createGroup", "write", creator, NoUser, nextChat + 1)
                          EXCEPT !.list = memberList, !.ts = clock,
                                 !.w = 1..(2 + Len(memberList))])
  /\ UNCHANGED <<store, clock, usedMsgs>>

\* the membership sets after command k
CreateGroupMembers(q, k) ==
  IF k = 1 THEN [members EXCEPT ![q.chat] = @ \cup Range(q.list)] ELSE members

\* the metadata hashes after command k
CreateGroupMeta(q, k) ==
  IF k = 2
  THEN [meta EXCEPT ![q.chat].type = "group", ![q.chat].name = <<"g">>,
                    ![q.chat].createdAt = q.ts, ![q.chat].createdBy = q.me]
  ELSE meta

\* the group indexes after command k
CreateGroupGroups(q, k) ==
  IF k > 2 THEN [groups EXCEPT ![q.list[k - 2]] = @ \cup {q.chat}] ELSE groups

\* chat/group/create: one command of the Promise.all lands; after the last the
\* handler returns the new chat id
CreateGroupWrite(p) ==
  LET q == procs[p] IN
  /\ q.op = "createGroup" /\ q.pc = "write"
  /\ \E k \in q.w :
       /\ members' = CreateGroupMembers(q, k)
       /\ meta' = CreateGroupMeta(q, k)
       /\ groups' = CreateGroupGroups(q, k)
       /\ IF q.w = {k}
          THEN Return(p, [Response("createGroup", q.me, NoUser, q.chat, 200, "chatId")
                            EXCEPT !.cid = q.chat])
          ELSE Goto(p, [q EXCEPT !.w = @ \ {k}])
  /\ UNCHANGED <<friends, requests, dms, messages, clock, nextChat, usedMsgs>>

\* add-member: the actor asks to add userId to the chat
AddMemberStart(p, U, C) ==
  /\ procs[p] = Idle
  /\ \E actor \in U, c \in C, u \in U :
       Goto(p, Proc("addMember", "type", actor, u, c))
  /\ UNCHANGED <<store, clock, nextChat, usedMsgs>>

\* AddMemberType without the check: the sadd follows whatever the type is
AddMemberNoTypeCheck(p) ==
  LET q == procs[p] IN
  /\ q.op = "addMember" /\ q.pc = "type"
  /\ Goto(p, [q EXCEPT !.pc = "sadd"])
  /\ UNCHANGED <<store, clock, nextChat, usedMsgs>>

\* add-member: hget chat:<id>:meta type
AddMemberType(p) ==
  LET q == procs[p] IN
  /\ q.op = "addMember" /\ q.pc = "type"
  /\ IF meta[q.chat].type # "group"
     THEN Return(p, Response("addMember", q.me, q.other, q.chat, 409,
                             "Chat is not a group"))
     ELSE Goto(p, [q EXCEPT !.pc = "sadd"])
  /\ UNCHANGED <<store, clock, nextChat, usedMsgs>>

\* add-member: sadd chat:<id>:members, which answers 0 for a member
AddMemberSadd(p) ==
  LET q == procs[p] IN
  /\ q.op = "addMember" /\ q.pc = "sadd"
  /\ IF q.other \in members[q.chat]
     THEN /\ Return(p, Response("addMember", q.me, q.other, q.chat, 409,
                                "User is already a member"))
          /\ UNCHANGED members
     ELSE /\ members' = [members EXCEPT ![q.chat] = @ \cup {q.other}]
          /\ Goto(p, [q EXCEPT !.pc = "saddGroups"])
  /\ UNCHANGED <<friends, requests, dms, groups, meta, messages,
                 clock, nextChat, usedMsgs>>

\* add-member without the write of the user's group index
AddMemberNoGroupIndex(p) ==
  LET q == procs[p] IN
  /\ q.op = "addMember" /\ q.pc = "saddGroups"
  /\ Goto(p, [q EXCEPT !.pc = "hset"])
  /\ UNCHANGED <<store, clock, nextChat, usedMsgs>>

\* add-member: sadd user:<userId>:groups
AddMemberSaddGroups(p) ==
  LET q == procs[p] IN
  /\ q.op = "addMember" /\ q.pc = "saddGroups"
  /\ groups' = [groups EXCEPT ![q.other] = @ \cup {q.chat}]
  /\ Goto(p, [q EXCEPT !.pc = "hset"])
  /\ UNCHANGED <<friends, requests, dms, members, meta, messages,
                 clock, nextChat, usedMsgs>>

\* add-member: hset updatedAt, then the profile read and the answer
AddMemberHset(p) ==
  LET q == procs[p] IN
  /\ q.op = "addMember" /\ q.pc = "hset"
  /\ meta' = [meta EXCEPT ![q.chat].updatedAt = clock]
  /\ Return(p, Response("addMember", q.me, q.other, q.chat, 200, "user"))
  /\ UNCHANGED <<friends, requests, dms, groups, members, messages,
                 clock, nextChat, usedMsgs>>

\* remove-member: the actor asks to remove userId from the chat
RemoveMemberStart(p, U, C) ==
  /\ procs[p] = Idle
  /\ \E actor \in U, c \in C, u \in U :
       Goto(p, Proc("removeMember", "createdBy", actor, u, c))
  /\ UNCHANGED <<store, clock, nextChat, usedMsgs>>

\* remove-member without the comparison of the actor with the creator
RemoveMemberAnyActor(p) ==
  LET q == procs[p] IN
  /\ q.op = "removeMember" /\ q.pc = "createdBy"
  /\ IF meta[q.chat].createdBy = NoUser
     THEN Return(p, Response("removeMember", q.me, q.other, q.chat, 409,
                             "createdBy not found"))
     ELSE Goto(p, [q EXCEPT !.pc = "type"])
  /\ UNCHANGED <<store, clock, nextChat, usedMsgs>>

\* remove-member: hget createdBy; another user than the creator gets the empty
\* new Response(), whose status is 200
RemoveMemberCreatedBy(p) ==
  LET q == procs[p] IN
  /\ q.op = "removeMember" /\ q.pc = "createdBy"
  /\ IF meta[q.chat].createdBy = NoUser
     THEN Return(p, Response("removeMember", q.me, q.other, q.chat, 409,
                             "createdBy not found"))
     ELSE IF meta[q.chat].createdBy # q.me
     THEN Return(p, Response("removeMember", q.me, q.other, q.chat, 200, ""))
     ELSE Goto(p, [q EXCEPT !.pc = "type"])
  /\ UNCHANGED <<store, clock, nextChat, usedMsgs>>

\* remove-member: hget type
RemoveMemberType(p) ==
  LET q == procs[p] IN
  /\ q.op = "removeMember" /\ q.pc = "type"
  /\ IF meta[q.chat].type # "group"
     THEN Return(p, Response("removeMember", q.me, q.other, q.chat, 409,
                             "Chat is not a group"))
     ELSE Goto(p, [q EXCEPT !.pc = "srem"])
  /\ UNCHANGED <<store, clock, nextChat, usedMsgs>>

\* remove-member: srem chat:<id>:members, which answers 0 for a non-member
RemoveMemberSrem(p) ==
  LET q == procs[p] IN
  /\ q.op = "removeMember" /\ q.pc = "srem"
  /\ IF q.other \notin members[q.chat]
     THEN /\ Return(p, Response("removeMember", q.me, q.other, q.chat, 404,
                                "User not found in group"))
          /\ UNCHANGED members
     ELSE /\ members' = [members EXCEPT ![q.chat] = @ \ {q.other}]
          /\ Goto(p, [q EXCEPT !.pc = "sremGroups"])
  /\ UNCHANGED <<friends, requests, dms, groups, meta, messages,
                 clock, nextChat, usedMsgs>>

\* remove-member: srem user:<userId>:groups
RemoveMemberSremGroups(p) ==
  LET q == procs[p] IN
  /\ q.op = "removeMember" /\ q.pc = "sremGroups"
  /\ groups' = [groups EXCEPT ![q.other] = @ \ {q.chat}]
  /\ Goto(p, [q EXCEPT !.pc = "hset"])
  /\ UNCHANGED <<friends, requests, dms, members, meta, messages,
                 clock, nextChat, usedMsgs>>

\* remove-member: hset updatedAt, then the profile read and the answer
RemoveMemberHset(p) ==
  LET q == procs[p] IN
  /\ q.op = "removeMember" /\ q.pc = "hset"
  /\ meta' = [meta EXCEPT ![q.chat].updatedAt = clock]
  /\ Return(p, Response("removeMember", q.me, q.other, q.chat, 200, "user"))
  /\ UNCHANGED <<friends, requests, dms, groups, members, messages,
                 clock, nextChat, usedMsgs>>

\* leave: the caller asks to leave the chat
LeaveStart(p, U, C) ==
  /\ procs[p] = Idle
  /\ \E u \in U, c \in C :
       Goto(p, Proc("leave", "hgetall", u, NoUser, c))
  /\ UNCHANGED <<store, clock, nextChat, usedMsgs>>

\* LeaveHgetall without the test of the type: every chat with metadata goes on
LeaveAnyType(p) ==
  LET q == procs[p] IN
  /\ q.op = "leave" /\ q.pc = "hgetall"
  /\ IF meta[q.chat] = NoMeta
     THEN Return(p, Response("leave", q.me, NoUser, q.chat, 404, "Chat not found"))
     ELSE Goto(p, [q EXCEPT !.pc = "sismember"])
  /\ UNCHANGED <<store, clock, nextChat, usedMsgs>>

\* leave: hgetall chat:<id>:meta
LeaveHgetall(p) ==
  LET q == procs[p] IN
  /\ q.op = "leave" /\ q.pc = "hgetall"
  /\ IF meta[q.chat] = NoMeta
     THEN Return(p, Response("leave", q.me, NoUser, q.chat, 404, "Chat not found"))
     ELSE IF meta[q.chat].type # "group"
     THEN Return(p, Response("leave", q.me, NoUser, q.chat, 409,
                             "Chat is not a group"))
     ELSE Goto(p, [q EXCEPT !.pc = "sismember"])
  /\ UNCHANGED <<store, clock, nextChat, usedMsgs>>

\* LeaveSismember without the check: the writes are issued for any caller
LeaveNoMemberCheck(p) ==
  LET q == procs[p] IN
  /\ q.op = "leave" /\ q.pc = "sismember"
  /\ Goto(p, [q EXCEPT !.pc = "write", !.ts = clock, !.w = {1, 2, 3}])
  /\ UNCHANGED <<store, clock, nextChat, usedMsgs>>

\* leave: sismember chat:<id>:members; a member issues the Promise.all of
\* 1 srem members, 2 srem groups, 3 hset updatedAt
LeaveSismember(p) ==
  LET q == procs[p] IN
  /\ q.op = "leave" /\ q.pc = "sismember"
  /\ IF q.me \notin members[q.chat]
     THEN Return(p, Response("leave", q.me, NoUser, q.chat, 403,
                             "Not a member of this group"))
     ELSE Goto(p, [q EXCEPT !.pc = "write", !.ts = clock, !.w = {1, 2, 3}])
  /\ UNCHANGED <<store, clock, nextChat, usedMsgs>>

\* leave: one command of the first Promise.all lands
LeaveWrite(p) ==
  LET q == procs[p] IN
  /\ q.op = "leave" /\ q.pc = "write"
  /\ \E k \in q.w :
       /\ members' = IF k = 1 THEN [members EXCEPT ![q.chat] = @ \ {q.me}]
                      ELSE members
       /\ groups' = IF k = 2 THEN [groups EXCEPT ![q.me] = @ \ {q.chat}]
                     ELSE groups
       /\ meta' = IF k = 3 THEN [meta EXCEPT ![q.chat].updatedAt = q.ts] ELSE meta
       /\ Goto(p, [q EXCEPT !.w = @ \ {k},
                            !.pc = IF q.w = {k} THEN "smembers" ELSE "write"])
  /\ UNCHANGED <<friends, requests, dms, messages, clock, nextChat, usedMsgs>>

\* LeaveSmembers without the clean-up: the handler answers whoever is left
LeaveNoCleanup(p) ==
  LET q == procs[p] IN
  /\ q.op = "leave" /\ q.pc = "smembers"
  /\ Return(p, Response("leave", q.me, NoUser, q.chat, 200, "left"))
  /\ UNCHANGED <<store, clock, nextChat, usedMsgs>>

\* leave: smembers chat:<id>:members; with nobody left the Promise.all of
\* 1 del meta, 2 del members, 3 del messages is issued
LeaveSmembers(p) ==
  LET q == procs[p] IN
  /\ q.op = "leave" /\ q.pc = "smembers"
  /\ IF members[q.chat] = {}
     THEN Goto(p, [q EXCEPT !.pc = "del", !.w = {1, 2, 3}])
     ELSE Return(p, Response("leave", q.me, NoUser, q.chat, 200, "left"))
  /\ UNCHANGED <<store, clock, nextChat, usedMsgs>>

\* leave: one del of the clean-up lands; after the last the handler answers
LeaveDel(p) ==
  LET q == procs[p] IN
  /\ q.op = "leave" /\ q.pc = "del"
  /\ \E k \in q.w :
       /\ meta' = IF k = 1 THEN [meta EXCEPT ![q.chat] = NoMeta] ELSE meta
       /\ members' = IF k = 2 THEN [members EXCEPT ![q.chat] = {}] ELSE members
       /\ messages' = IF k = 3 THEN [messages EXCEPT ![q.chat] = <<>>]
                       ELSE messages
       /\ IF q.w = {k}
          THEN Return(p, Response("leave", q.me, NoUser, q.chat, 200, "left"))
          ELSE Goto(p, [q EXCEPT !.w = @ \ {k}])
  /\ UNCHANGED <<friends, requests, dms, groups, clock, nextChat, usedMsgs>>

\* the names a client sends, as character sequences: none, blanks only, and a
\* name with a blank on each side
Names == {<<>>, <<" ">>, <<" ", "n", " ">>}

\* String.prototype.trim: the blanks at both ends are dropped
RECURSIVE Trim(_)
Trim(s) ==
  IF s = <<>> THEN s
  ELSE IF Head(s) = " " THEN Trim(Tail(s))
  ELSE IF s[Len(s)] = " " THEN Trim(SubSeq(s, 1, Len(s) - 1))
  ELSE s

\* update-meta: the actor sends a name for the chat; a name that is empty after
\* trim is answered 422 before the store is read
UpdateMetaStart(p, U, C) ==
  /\ procs[p] = Idle
  /\ \E actor \in U, c \in C, n \in Names :
       IF Len(Trim(n)) = 0
       THEN Return(p, Response("updateMeta", actor, NoUser, c, 422,
                               "name is required"))
       ELSE Goto(p, [Proc("updateMeta", "hgetall", actor, NoUser, c)
                       EXCEPT !.name = n])
  /\ UNCHANGED <<store, clock, nextChat, usedMsgs>>

\* update-meta: hgetall chat:<id>:meta; a chat with a createdBy field refuses
\* every other actor, a chat without one refuses nobody
UpdateMetaHgetall(p) ==
  LET q == procs[p]
      m == meta[q.chat]
  IN /\ q.op = "updateMeta" /\ q.pc = "hgetall"
     /\ IF m = NoMeta
        THEN Return(p, Response("updateMeta", q.me, NoUser, q.chat, 404,
                                "Chat not found"))
        ELSE IF m.createdBy # NoUser /\ m.createdBy # q.me
        THEN Return(p, Response("updateMeta", q.me, NoUser, q.chat, 403,
                                "Forbidden"))
        ELSE Goto(p, [q EXCEPT !.pc = "hset", !.ts = clock])
     /\ UNCHANGED <<store, clock, nextChat, usedMsgs>>

\* update-meta: hset name and updatedAt, then the answer
UpdateMetaHset(p) ==
  LET q == procs[p] IN
  /\ q.op = "updateMeta" /\ q.pc = "hset"
  /\ meta' = [meta EXCEPT ![q.chat].name = Trim(q.name),
                          ![q.chat].updatedAt = q.ts]
  /\ Return(p, Response("updateMeta", q.me, NoUser, q.chat, 200, "meta"))
  /\ UNCHANGED <<friends, requests, dms, groups, members, messages,
                 clock, nextChat, usedMsgs>>

\* ------------------------------------------------------------------------
\* Group list: GET chat/group/list
\* ------------------------------------------------------------------------

\* the null of an entry whose chat has no updatedAt field
Null == 0 - 1

\* the orders in which smembers may hand out the set S
Perms(S) ==
  {l \in SeqsOver(S, Cardinality(S)) : Len(l) = Cardinality(S) /\ Range(l) = S}

\* updatedAtRaw ? Number(updatedAtRaw) : null, for a hash where an absent field
\* reads as 0
UpdatedAtOf(m) == IF m.updatedAt = 0 THEN Null ELSE m.updatedAt

\* updatedAt ?? 0
OrZero(x) == IF x = Null THEN 0 ELSE x

\* a list that is handed on in the order it came in
Unsorted(entries) == entries

\* Array.prototype.sort with (a, b) => (b.updatedAt ?? 0) - (a.updatedAt ?? 0):
\* the highest updatedAt first, entries that compare equal in their old order
RECURSIVE SortByUpdatedAt(_)
SortByUpdatedAt(entries) ==
  IF entries = <<>> THEN <<>>
  ELSE LET n == Len(entries)
           e == entries[n]
           sorted == SortByUpdatedAt(SubSeq(entries, 1, n - 1))
           before == SelectSeq(sorted,
                       LAMBDA x : OrZero(x.updatedAt) >= OrZero(e.updatedAt))
           after == SelectSeq(sorted,
                      LAMBDA x : OrZero(x.updatedAt) < OrZero(e.updatedAt))
       IN before \o <<e>> \o after

\* list: the user asks for the groups they are in
ListGroupsStart(p, U) ==
  /\ procs[p] = Idle
  /\ \E u \in U : Goto(p, Proc("listGroups", "smembers", u, NoUser, NullChat))
  /\ UNCHANGED <<store, clock, nextChat, usedMsgs>>

\* list: smembers user:<id>:groups, then one hget per chat id is issued; with
\* no chat id the empty list is the answer
ListGroupsSmembers(p) ==
  LET q == procs[p] IN
  /\ q.op = "listGroups" /\ q.pc = "smembers"
  /\ \E l \in Perms(groups[q.me]) :
       IF l = <<>>
       THEN Return(p, Response("listGroups", q.me, NoUser, NullChat, 200, "groups"))
       ELSE Goto(p, [q EXCEPT !.pc = "hget", !.w = DOMAIN l,
                              !.list = [i \in DOMAIN l |->
                                          [chatId |-> l[i], updatedAt |-> Null]]])
  /\ UNCHANGED <<store, clock, nextChat, usedMsgs>>

\* list: one hget chat:<id>:meta updatedAt lands; after the last the entries
\* are sorted and returned
ListGroupsHget(p) ==
  LET q == procs[p] IN
  /\ q.op = "listGroups" /\ q.pc = "hget"
  /\ \E k \in q.w :
       LET entries == [q.list EXCEPT
                         ![k].updatedAt = UpdatedAtOf(meta[q.list[k].chatId])]
       IN IF q.w = {k}
          THEN Return(p, [Response("listGroups", q.me, NoUser, NullChat, 200,
                                   "groups")
                            EXCEPT !.msgs = SortByUpdatedAt(entries)])
          ELSE Goto(p, [q EXCEPT !.w = @ \ {k}, !.list = entries])
  /\ UNCHANGED <<store, clock, nextChat, usedMsgs>>

\* ------------------------------------------------------------------------
\* Group metadata and message log: GET chat/group/{chatId} in its two
\* versions, POST chat/group/{chatId}/send, POST chat/group/{chatId}/messages
\* ------------------------------------------------------------------------

\* JSON.stringify of a message: one level of encoding
JSONStringify(m) == [enc |-> 1, val |-> m]

\* a decoding that hands the stored string on as it is
JSONKeep(str) == str

\* JSON.parse of a stored string: one level of encoding less
JSONParse(str) == IF str.enc = 1 THEN str.val ELSE [str EXCEPT !.enc = @ - 1]

\* the order of a sorted set: by score, then by member (the serialised
\* message starts with its id)
ZLess(x, y) ==
  \/ x.score < y.score
  \/ x.score = y.score /\ x.member.val.id < y.member.val.id

\* a write that keeps the new member only
ZAddLast(zs, score, member) == <<[score |-> score, member |-> member]>>

\* zadd key score member
ZAdd(zs, score, member) ==
  LET e == [score |-> score, member |-> member]
      rest == SelectSeq(zs, LAMBDA x : x.member # member)
      lower == SelectSeq(rest, LAMBDA x : ZLess(x, e))
      upper == SelectSeq(rest, LAMBDA x : ~ZLess(x, e))
  IN lower \o <<e>> \o upper

\* an index of zrange/zrevrange: a negative one counts from the end
ZIndex(i, n) == IF i < 0 THEN n + i ELSE i

\* zrange key start stop: the members from rank start to rank stop, the
\* lowest score first
ZRange(zs, start, stop) ==
  LET n == Len(zs)
      from == IF ZIndex(start, n) < 0 THEN 0 ELSE ZIndex(start, n)
      to == IF ZIndex(stop, n) >= n THEN n - 1 ELSE ZIndex(stop, n)
  IN IF from > to \/ from >= n THEN <<>>
     ELSE [i \in 1..(to - from + 1) |-> zs[from + i].member]

\* zrevrange key start stop: the members from rank start to rank stop, the
\* highest score first
ZRevRange(zs, start, stop) ==
  LET n == Len(zs)
      from == IF ZIndex(start, n) < 0 THEN 0 ELSE ZIndex(start, n)
      to == IF ZIndex(stop, n) >= n THEN n - 1 ELSE ZIndex(stop, n)
  IN IF from > to \/ from >= n THEN <<>>
     ELSE [i \in 1..(to - from + 1) |-> zs[n - from - i + 1].member]

GetMetaOps == {"getMeta", "getMetaTypeFirst"}

\* GET chat/group/{chatId}: the requester asks for the metadata.  One version
\* checks the membership first, the other the chat type first.
GetMetaStart(p, op, U, C) ==
  /\ procs[p] = Idle
  /\ \E u \in U, c \in C :
       Goto(p, Proc(op, IF op = "getMeta" THEN "sismember" ELSE "type",
                    u, NoUser, c))
  /\ UNCHANGED <<store, clock, nextChat, usedMsgs>>

\* sismember chat:<id>:members
GetMetaSismember(p) ==
  LET q == procs[p] IN
  /\ q.op \in GetMetaOps /\ q.pc = "sismember"
  /\ IF q.me \notin members[q.chat]
     THEN Return(p, Response(q.op, q.me, NoUser, q.chat, 401, "Unauthorized"))
     ELSE IF q.op = "getMeta"
     THEN Goto(p, [q EXCEPT !.pc = "type"])
     ELSE Return(p, [Response(q.op, q.me, NoUser, q.chat, 200, "meta")
                       EXCEPT !.msgs = q.list])
  /\ UNCHANGED <<store, clock, nextChat, usedMsgs>>

\* hget chat:<id>:meta type
GetMetaType(p) ==
  LET q == procs[p] IN
  /\ q.op \in GetMetaOps /\ q.pc = "type"
  /\ IF meta[q.chat].type # "group"
     THEN Return(p, Response(q.op, q.me, NoUser, q.chat, 409,
                             "Conflict: Chat type must be group"))
     ELSE Goto(p, [q EXCEPT !.pc = "hgetall"])
  /\ UNCHANGED <<store, clock, nextChat, usedMsgs>>

\* hgetall chat:<id>:meta, then the parse of lastMessage (the sender's
\* profile exists); the answer carries the parsed lastMessage
GetMetaHgetall(p) ==
  LET q == procs[p]
      last == IF meta[q.chat].lastMessage = NoStr THEN <<>>
              ELSE <<JSONParse(meta[q.chat].lastMessage)>>
  IN
  /\ q.op \in GetMetaOps /\ q.pc = "hgetall"
  /\ IF meta[q.chat] = NoMeta
     THEN Return(p, Response(q.op, q.me, NoUser, q.chat, 404, "Chat not found"))
     ELSE IF q.op = "getMeta"
     THEN Return(p, [Response(q.op, q.me, NoUser, q.chat, 200, "meta")
                       EXCEPT !.msgs = last])
     ELSE Goto(p, [q EXCEPT !.pc = "sismember", !.list = last])
  /\ UNCHANGED <<store, clock, nextChat, usedMsgs>>

\* the sends in flight that have not drawn their message id yet
SendsWithoutId ==
  {p \in Procs : \/ procs[p].op = "append" /\ procs[p].pc \in {"type", "sismember"}
                 \/ procs[p].op = "dmAppend"
                      /\ procs[p].pc \in {"type", "smembers", "isFriend"}}

\* send: the sender posts a text to the chat
GroupSendStart(p, U, C) ==
  /\ procs[p] = Idle
  /\ Cardinality(usedMsgs) + Cardinality(SendsWithoutId) < MaxMsgs
  /\ \E u \in U, c \in C, text \in Texts :
       Goto(p, [Proc("append", "type", u, NoUser, c)
                  EXCEPT !.msg = [NoMsg EXCEPT !.text = text]])
  /\ UNCHANGED <<store, clock, nextChat, usedMsgs>>

\* send: hget chat:<id>:meta type
GroupSendType(p) ==
  LET q == procs[p] IN
  /\ q.op = "append" /\ q.pc = "type"
  /\ IF meta[q.chat].type # "group"
     THEN Return(p, Response("append", q.me, NoUser, q.chat, 409,
                             "Conflict: Chat type must be group"))
     ELSE Goto(p, [q EXCEPT !.pc = "sismember"])
  /\ UNCHANGED <<store, clock, nextChat, usedMsgs>>

\* send: sismember chat:<id>:members; a member's text must not be empty, and
\* the message gets Date.now() as its timestamp and a randomUUID() as its id
GroupSendSismember(p) ==
  LET q == procs[p] IN
  /\ q.op = "append" /\ q.pc = "sismember"
  /\ IF q.me \notin members[q.chat]
     THEN /\ Return(p, Response("append", q.me, NoUser, q.chat, 401, "Unauthorized"))
          /\ UNCHANGED usedMsgs
     ELSE IF q.msg.text = ""
     THEN /\ Return(p, Response("append", q.me, NoUser, q.chat, 422,
                                "text is required"))
          /\ UNCHANGED usedMsgs
     ELSE \E id \in (1..MaxMsgs) \ usedMsgs :
            /\ usedMsgs' = usedMsgs \cup {id}
            /\ Goto(p, [q EXCEPT !.pc = "zadd",
                                 !.msg = [id |-> id, senderId |-> q.me,
                                          text |-> q.msg.text,
                                          timestamp |-> clock]])
  /\ UNCHANGED <<store, clock, nextChat>>

\* send: zadd chat:<id>:messages with the timestamp as score
GroupSendZadd(p) ==
  LET q == procs[p] IN
  /\ q.op = "append" /\ q.pc = "zadd"
  /\ messages' = [messages EXCEPT
                    ![q.chat] = ZAdd(@, q.msg.timestamp, JSONStringify(q.msg))]
  /\ Goto(p, [q EXCEPT !.pc = "hset"])
  /\ UNCHANGED <<friends, requests, dms, groups, members, meta,
                 clock, nextChat, usedMsgs>>

\* send: hset lastMessage, then 201 with the message
GroupSendHset(p) ==
  LET q == procs[p] IN
  /\ q.op = "append" /\ q.pc = "hset"
  /\ meta' = [meta EXCEPT ![q.chat].lastMessage = JSONStringify(q.msg)]
  /\ Return(p, [Response("append", q.me, NoUser, q.chat, 201, "message")
                  EXCEPT !.msgs = <<q.msg>>])
  /\ UNCHANGED <<friends, requests, dms, groups, members, messages,
                 clock, nextChat, usedMsgs>>

\* messages: the requester asks for the ranks startPos..endPos
GroupRangeStart(p, U, C, P) ==
  /\ procs[p] = Idle
  /\ \E u \in U, c \in C, startPos \in P, endPos \in P :
       Goto(p, [Proc("range", "sismember", u, NoUser, c)
                  EXCEPT !.lo = startPos, !.hi = endPos])
  /\ UNCHANGED <<store, clock, nextChat, usedMsgs>>

\* messages: sismember chat:<id>:members
GroupRangeSismember(p) ==
  LET q == procs[p] IN
  /\ q.op = "range" /\ q.pc = "sismember"
  /\ IF q.me \notin members[q.chat]
     THEN Return(p, Response("range", q.me, NoUser, q.chat, 401, "Unauthorized"))
     ELSE Goto(p, [q EXCEPT !.pc = "type"])
  /\ UNCHANGED <<store, clock, nextChat, usedMsgs>>

\* messages: hget chat:<id>:meta type
GroupRangeType(p) ==
  LET q == procs[p] IN
  /\ q.op = "range" /\ q.pc = "type"
  /\ IF meta[q.chat].type # "group"
     THEN Return(p, Response("range", q.me, NoUser, q.chat, 409,
                             "Conflict: Chat type must be group"))
     ELSE Goto(p, [q EXCEPT !.pc = "zrevrange"])
  /\ UNCHANGED <<store, clock, nextChat, usedMsgs>>

\* the null a page item becomes when it cannot be parsed
NoItem == [null |-> TRUE]

\* JSON.parse throws on a text that is no JSON
Throws(str) == str.enc = 0

\* the try/catch of the two messages routes: JSON.parse(item), and when that
\* throws JSON.parse(JSON.parse(item)), which starts with the same parse
ParseItem(item) ==
  IF ~Throws(item) THEN JSONParse(item)
  ELSE IF ~Throws(item) /\ ~Throws(JSONParse(item))
  THEN JSONParse(JSONParse(item))
  ELSE NoItem

\* Boolean(x) of a page item: null is dropped, objects and strings are kept
Truthy(x) == x # NoItem

\* the page of the group messages route: every item parsed, the results that
\* are not truthy dropped
GroupRangeResults(rawResults) ==
  SelectSeq([i \in 1..Len(rawResults) |-> ParseItem(rawResults[i])], Truthy)

\* messages: zrevrange chat:<id>:messages startPos endPos, then the decoding
GroupRangeZrevrange(p) ==
  LET q == procs[p] IN
  /\ q.op = "range" /\ q.pc = "zrevrange"
  /\ Return(p, [Response("range", q.me, NoUser, q.chat, 200, "messages")
                  EXCEPT !.msgs = GroupRangeResults(
                                    ZRevRange(messages[q.chat], q.lo, q.hi))])
  /\ UNCHANGED <<store, clock, nextChat, usedMsgs>>

\* ------------------------------------------------------------------------
\* DM message log: POST chat/dms/{chatId}/send, POST chat/dms/{chatId}/messages
\* ------------------------------------------------------------------------

\* send: the sender posts a text to the DM chat
DMSendStart(p, U, C) ==
  /\ procs[p] = Idle
  /\ Cardinality(usedMsgs) + Cardinality(SendsWithoutId) < MaxMsgs
  /\ \E u \in U, c \in C, text \in Texts :
       Goto(p, [Proc("dmAppend", "type", u, NoUser, c)
                  EXCEPT !.msg = [NoMsg EXCEPT !.text = text]])
  /\ UNCHANGED <<store, clock, nextChat, usedMsgs>>

\* send: hget chat:<id>:meta type
DMSendType(p) ==
  LET q == procs[p] IN
  /\ q.op = "dmAppend" /\ q.pc = "type"
  /\ IF meta[q.chat].type # "dms"
     THEN Return(p, Response("dmAppend", q.me, NoUser, q.chat, 409,
                             "Conflict: Chat type must be DMs"))
     ELSE Goto(p, [q EXCEPT !.pc = "smembers"])
  /\ UNCHANGED <<store, clock, nextChat, usedMsgs>>

\* send: smembers chat:<id>:members, then the member that is not the sender
DMSendSmembers(p) ==
  LET q == procs[p] IN
  /\ q.op = "dmAppend" /\ q.pc = "smembers"
  /\ IF q.me \notin members[q.chat]
     THEN Return(p, Response("dmAppend", q.me, NoUser, q.chat, 401, "Unauthorized"))
     ELSE IF members[q.chat] = {q.me}
     THEN Return(p, Response("dmAppend", q.me, NoUser, q.chat, 400,
                             "Unable to determine chat recipient"))
     ELSE \E otherUserId \in members[q.chat] \ {q.me} :
            Goto(p, [q EXCEPT !.pc = "isFriend", !.other = otherUserId])
  /\ UNCHANGED <<store, clock, nextChat, usedMsgs>>

\* send: sismember user:<me>:friends; a friend's message gets Date.now() as
\* its timestamp and a randomUUID() as its id.  The text is not checked by the
\* handler; the validator may reject an empty one, which the catch turns
\* into 500.
DMSendIsFriend(p) ==
  LET q == procs[p] IN
  /\ q.op = "dmAppend" /\ q.pc = "isFriend"
  /\ \/ /\ q.other \notin friends[q.me]
        /\ Return(p, Response("dmAppend", q.me, q.other, q.chat, 401, "Unauthorized"))
        /\ UNCHANGED usedMsgs
     \/ /\ q.other \in friends[q.me]
        /\ q.msg.text = ""
        /\ Return(p, Response("dmAppend", q.me, q.other, q.chat, 500,
                              "Internal server error"))
        /\ UNCHANGED usedMsgs
     \/ /\ q.other \in friends[q.me]
        /\ \E id \in (1..MaxMsgs) \ usedMsgs :
             /\ usedMsgs' = usedMsgs \cup {id}
             /\ Goto(p, [q EXCEPT !.pc = "zadd",
                                  !.msg = [id |-> id, senderId |-> q.me,
                                           text |-> q.msg.text,
                                           timestamp |-> clock]])
  /\ UNCHANGED <<store, clock, nextChat>>

\* send: zadd chat:<id>:messages with the timestamp as score
DMSendZadd(p) ==
  LET q == procs[p] IN
  /\ q.op = "dmAppend" /\ q.pc = "zadd"
  /\ messages' = [messages EXCEPT
                    ![q.chat] = ZAdd(@, q.msg.timestamp, JSONStringify(q.msg))]
  /\ Goto(p, [q EXCEPT !.pc = "hset"])
  /\ UNCHANGED <<friends, requests, dms, groups, members, meta,
                 clock, nextChat, usedMsgs>>

\* send: hset lastMessage, then 201 with the message
DMSendHset(p) ==
  LET q == procs[p] IN
  /\ q.op = "dmAppend" /\ q.pc = "hset"
  /\ meta' = [meta EXCEPT ![q.chat].lastMessage = JSONStringify(q.msg)]
  /\ Return(p, [Response("dmAppend", q.me, q.other, q.chat, 201, "message")
                  EXCEPT !.msgs = <<q.msg>>])
  /\ UNCHANGED <<friends, requests, dms, groups, members, messages,
                 clock, nextChat, usedMsgs>>

\* messages: the requester asks for the ranks startPos..endPos
DMRangeStart(p, U, C, P) ==
  /\ procs[p] = Idle
  /\ \E u \in U, c \in C, startPos \in P, endPos \in P :
       Goto(p, [Proc("dmRange", "sismember", u, NoUser, c)
                  EXCEPT !.lo = startPos, !.hi = endPos])
  /\ UNCHANGED <<store, clock, nextChat, usedMsgs>>

\* messages: sismember chat:<id>:members
DMRangeSismember(p) ==
  LET q == procs[p] IN
  /\ q.op = "dmRange" /\ q.pc = "sismember"
  /\ IF q.me \notin members[q.chat]
     THEN Return(p, Response("dmRange", q.me, NoUser, q.chat, 401, "Unauthorized"))
     ELSE Goto(p, [q EXCEPT !.pc = "type"])
  /\ UNCHANGED <<store, clock, nextChat, usedMsgs>>

\* messages: hget chat:<id>:meta type
DMRangeType(p) ==
  LET q == procs[p] IN
  /\ q.op = "dmRange" /\ q.pc = "type"
  /\ IF meta[q.chat].type # "dms"
     THEN Return(p, Response("dmRange", q.me, NoUser, q.chat, 409,
                             "Conflict: Chat type must be DMs"))
     ELSE Goto(p, [q EXCEPT !.pc = "zrevrange"])
  /\ UNCHANGED <<store, clock, nextChat, usedMsgs>>

\* isMessage: an object with the four fields of a Message
isMessage(obj) == DOMAIN obj = DOMAIN NoMsg

\* the page of the DM messages route: every item parsed, the candidates that
\* are no Message dropped, the others rebuilt field by field
DMRangeResults(rawResults) ==
  LET candidates == [i \in 1..Len(rawResults) |-> ParseItem(rawResults[i])]
      kept == SelectSeq(candidates, isMessage)
  IN [i \in 1..Len(kept) |->
        [id |-> kept[i].id, senderId |-> kept[i].senderId,
         text |-> kept[i].text, timestamp |-> kept[i].timestamp]]

\* messages: zrevrange chat:<id>:messages startPos endPos, then the decoding
DMRangeZrevrange(p) ==
  LET q == procs[p] IN
  /\ q.op = "dmRange" /\ q.pc = "zrevrange"
  /\ Return(p, [Response("dmRange", q.me, NoUser, q.chat, 200, "messages")
                  EXCEPT !.msgs = DMRangeResults(
                                    ZRevRange(messages[q.chat], q.lo, q.hi))])
  /\ UNCHANGED <<store, clock, nextChat, usedMsgs>>

\* time passes
Tick ==
  /\ clock < MaxClock
  /\ clock' = clock + 1
  /\ resp' = NoResp
  /\ UNCHANGED <<store, nextChat, usedMsgs, procs>>

\* the store after createGroup(a, "g", [b, c]) has completed
InitGroup ==
  /\ Init!1 /\ Init!2 /\ Init!3 /\ Init!7 /\ Init!8 /\ Init!10 /\ Init!11 /\ Init!12
  /\ groups = [u \in Users |-> {1}]
  /\ members = [c \in ChatKeys |-> IF c = 1 THEN Users ELSE {}]
  /\ meta = [c \in ChatKeys |->
               IF c = 1 THEN [NoMeta EXCEPT !.type = "group", !.name = <<"g">>,
                                            !.createdAt = 1, !.createdBy = "a"]
               ELSE NoMeta]
  /\ nextChat = 1

\* the steps of add-member, remove-member and leave for the actors and
\* targets U and the chat ids C
MembershipStep(p, U, C) ==
  \/ AddMemberStart(p, U, C)
  \/ AddMemberType(p)
  \/ AddMemberSadd(p)
  \/ AddMemberSaddGroups(p)
  \/ AddMemberHset(p)
  \/ RemoveMemberStart(p, U, C)
  \/ RemoveMemberCreatedBy(p)
  \/ RemoveMemberType(p)
  \/ RemoveMemberSrem(p)
  \/ RemoveMemberSremGroups(p)
  \/ RemoveMemberHset(p)
  \/ LeaveStart(p, U, C)
  \/ LeaveHgetall(p)
  \/ LeaveSismember(p)
  \/ LeaveWrite(p)
  \/ LeaveSmembers(p)
  \/ LeaveDel(p)

NextGroup == \E p \in Procs : MembershipStep(p, Users, {1})

\* concurrent membership changes of the group a created with b and c
SpecGroup == InitGroup /\ [][NextGroup]_vars

\* the steps of the two metadata routes
GetMetaStep(p, U, C) ==
  \/ GetMetaStart(p, "getMeta", U, C)
  \/ GetMetaStart(p, "getMetaTypeFirst", U, C)
  \/ GetMetaSismember(p)
  \/ GetMetaType(p)
  \/ GetMetaHgetall(p)

NextGroupSeq ==
  \/ CreateGroupStart(1, Users, MemberLists)
  \/ CreateGroupWrite(1)
  \/ MembershipStep(1, Users, ChatIds)
  \/ GetMetaStep(1, Users, ChatIds)

\* group creation, membership changes and metadata reads, one after the other
SpecGroupSeq == Init /\ [][NextGroupSeq]_vars

\* the store after createGroup(a, "g", [b, c]) and leave(c) have completed
InitMsg ==
  /\ Init!1 /\ Init!2 /\ Init!3 /\ Init!7 /\ Init!8 /\ Init!10 /\ Init!11 /\ Init!12
  /\ groups = [u \in Users |-> IF u = "c" THEN {} ELSE {1}]
  /\ members = [c \in ChatKeys |-> IF c = 1 THEN {"a", "b"} ELSE {}]
  /\ meta = [c \in ChatKeys |->
               IF c = 1 THEN [NoMeta EXCEPT !.type = "group", !.name = <<"g">>,
                                            !.createdAt = 1, !.createdBy = "a",
                                            !.updatedAt = 1]
               ELSE NoMeta]
  /\ nextChat = 1

\* the steps of send and messages
MessageStep(p, U, C, P) ==
  \/ GroupSendStart(p, U, C)
  \/ GroupSendType(p)
  \/ GroupSendSismember(p)
  \/ GroupSendZadd(p)
  \/ GroupSendHset(p)
  \/ GroupRangeStart(p, U, C, P)
  \/ GroupRangeSismember(p)
  \/ GroupRangeType(p)
  \/ GroupRangeZrevrange(p)

NextMsg ==
  \/ \E p \in Procs : MessageStep(p, Users, {1, 2}, {0, 1, 0 - 1})
  \/ \E p \in Procs : GetMetaStep(p, Users, {1, 2})

\* concurrent sends and reads on the group of a and b, and on an unknown chat
SpecMsg == InitMsg /\ [][NextMsg]_vars

\* the two members a and b, each with one client, send to the group and read
\* the whole log, its newest and its oldest entry
NextLog ==
  \/ \E p \in {1, 2} : MessageStep(p, {"a", "b"}, {1}, {0, 0 - 1})
  \/ Tick

\* concurrent sends and reads on the group of a and b as time passes
SpecLog == InitMsg /\ [][NextLog]_vars

\* the store after a and b have become friends, getOrCreateDM(a, b) has created
\* chat 1, and createGroup(a, "g", [b, c]) and leave(c) have left chat 2 to a
\* and b
InitChats ==
  /\ Init!2 /\ Init!7 /\ Init!8 /\ Init!10 /\ Init!11 /\ Init!12
  /\ friends = [u \in Users |-> IF u = "a" THEN {"b"}
                                ELSE IF u = "b" THEN {"a"} ELSE {}]
  /\ dms = [u \in Users |-> [v \in Users |->
              IF {u, v} = {"a", "b"} THEN 1 ELSE NullChat]]
  /\ groups = [u \in Users |-> IF u = "c" THEN {} ELSE {2}]
  /\ members = [c \in ChatKeys |-> IF c \in {1, 2} THEN {"a", "b"} ELSE {}]
  /\ meta = [c \in ChatKeys |->
               IF c = 1 THEN [NoMeta EXCEPT !.type = "dms", !.createdAt = 1,
                                            !.user1 = "a", !.user2 = "b",
                                            !.updatedAt = 1]
               ELSE IF c = 2
               THEN [NoMeta EXCEPT !.type = "group", !.name = <<"g">>,
                                   !.createdAt = 1, !.createdBy = "a",
                                   !.updatedAt = 1]
               ELSE NoMeta]
  /\ nextChat = 2

\* the steps of the DM send and messages routes
DMMessageStep(p, U, C, P) ==
  \/ DMSendStart(p, U, C)
  \/ DMSendType(p)
  \/ DMSendSmembers(p)
  \/ DMSendIsFriend(p)
  \/ DMSendZadd(p)
  \/ DMSendHset(p)
  \/ DMRangeStart(p, U, C, P)
  \/ DMRangeSismember(p)
  \/ DMRangeType(p)
  \/ DMRangeZrevrange(p)

\* a and b, each with one client, send to their DM chat and read the whole
\* log, its newest and its oldest entry
NextDMLog ==
  \/ DMMessageStep(1, {"a"}, {1}, {0, 0 - 1})
  \/ DMMessageStep(2, {"b"}, {1}, {0, 0 - 1})
  \/ Tick

\* concurrent sends and reads on the DM chat of a and b as time passes
SpecDMLog == InitChats /\ [][NextDMLog]_vars

\* the store after a has become a friend of b and of c and
\* createGroup(a, "g", [b, c]) has created chat 1
InitDMMembers ==
  /\ Init!2 /\ Init!3 /\ Init!7 /\ Init!8 /\ Init!10 /\ Init!11 /\ Init!12
  /\ InitGroup!2 /\ InitGroup!3 /\ InitGroup!4 /\ InitGroup!5
  /\ friends = [u \in Users |-> IF u = "a" THEN {"b", "c"} ELSE {"a"}]

\* get-or-create calls and membership changes, one after the other, on any chat
NextDMMembers ==
  \/ DMStep(1)
  \/ MembershipStep(1, Users, ChatIds)

SpecDMMembers == InitDMMembers /\ [][NextDMMembers]_vars

\* the store after a and b have become friends, getOrCreateDM(a, b) has created
\* chat 1 and createGroup(a, "g", [b, c]) has created chat 2
InitTwoChats ==
  /\ Init!2 /\ Init!7 /\ Init!8 /\ Init!10 /\ Init!11 /\ Init!12
  /\ InitChats!2 /\ InitChats!3
  /\ groups = [u \in Users |-> {2}]
  /\ members = [c \in ChatKeys |-> IF c = 1 THEN {"a", "b"}
                                   ELSE IF c = 2 THEN Users ELSE {}]
  /\ meta = [c \in ChatKeys |->
               IF c = 1 THEN [NoMeta EXCEPT !.type = "dms", !.createdAt = 1,
                                            !.user1 = "a", !.user2 = "b",
                                            !.updatedAt = 1]
               ELSE IF c = 2
               THEN [NoMeta EXCEPT !.type = "group", !.name = <<"g">>,
                                   !.createdAt = 1, !.createdBy = "a"]
               ELSE NoMeta]
  /\ nextChat = 2

\* the steps of the group send route
GroupSendStep(p, U, C) ==
  \/ GroupSendStart(p, U, C)
  \/ GroupSendType(p)
  \/ GroupSendSismember(p)
  \/ GroupSendZadd(p)
  \/ GroupSendHset(p)

\* membership changes and sends, one after the other, on the DM chat, the
\* group and any other chat id
NextLeaveSeq ==
  \/ MembershipStep(1, Users, ChatIds)
  \/ GroupSendStep(1, Users, ChatIds)

SpecLeaveSeq == InitTwoChats /\ [][NextLeaveSeq]_vars

\* the steps of the update-meta route
UpdateMetaStep(p, U, C) ==
  \/ UpdateMetaStart(p, U, C)
  \/ UpdateMetaHgetall(p)
  \/ UpdateMetaHset(p)

\* renames and membership changes, one after the other, on the DM chat, the
\* group and any other chat id
NextMetaSeq ==
  \/ UpdateMetaStep(1, Users, ChatIds)
  \/ MembershipStep(1, Users, ChatIds)
  \/ Tick

SpecMetaSeq == InitTwoChats /\ [][NextMetaSeq]_vars

\* the steps of the DM send route
DMSendStep(p, U, C) ==
  \/ DMSendStart(p, U, C)
  \/ DMSendType(p)
  \/ DMSendSmembers(p)
  \/ DMSendIsFriend(p)
  \/ DMSendZadd(p)
  \/ DMSendHset(p)

\* membership changes on the DM chat, the group and any other chat id, and
\* sends of a to the DM chat, one after the other
NextDMKeep ==
  \/ MembershipStep(1, Users, ChatIds)
  \/ DMSendStep(1, {"a"}, {1})

SpecDMKeep == InitTwoChats /\ [][NextDMKeep]_vars

\* the store after createGroup(a, "g", [b, c]) has been called twice
InitTwoGroups ==
  /\ Init!1 /\ Init!2 /\ Init!3 /\ Init!7 /\ Init!8 /\ Init!10 /\ Init!11 /\ Init!12
  /\ groups = [u \in Users |-> {1, 2}]
  /\ members = [c \in ChatKeys |-> IF c \in {1, 2} THEN Users ELSE {}]
  /\ meta = [c \in ChatKeys |->
               IF c \in {1, 2}
               THEN [NoMeta EXCEPT !.type = "group", !.name = <<"g">>,
                                   !.createdAt = 1, !.createdBy = "a"]
               ELSE NoMeta]
  /\ nextChat = 2

\* the steps of the group list route
ListGroupsStep(p, U) ==
  \/ ListGroupsStart(p, U)
  \/ ListGroupsSmembers(p)
  \/ ListGroupsHget(p)

\* group lists and membership changes, one after the other, as time passes
NextListSeq ==
  \/ ListGroupsStep(1, {"a", "b"})
  \/ MembershipStep(1, Users, ChatIds)
  \/ Tick

SpecListSeq == InitTwoGroups /\ [][NextListSeq]_vars

\* sends of a and b to their group and reads of its newest entry, one call
\* after the other, as time passes
NextAppendSeq ==
  \/ MessageStep(1, {"a", "b"}, {1}, {0})
  \/ Tick

SpecAppendSeq == InitMsg /\ [][NextAppendSeq]_vars

\* the logs an earlier version of the store may have left behind: the message
\* of rank i stored as JSON (1), as the JSON of a JSON string (2) or as a text
\* that is no JSON (0)
HistoricLogs ==
  UNION {[1..n -> {0, 1, 2}] : n \in 0..MaxMsgs}

HistoricEntry(i, e) ==
  [score |-> i,
   member |-> [enc |-> e, val |-> [id |-> i, senderId |-> "a", text |-> "hi",
                                   timestamp |-> i]]]

\* the DM chat 1 and the group chat 2 of a and b, both with the same log
InitDecode ==
  /\ Init!2 /\ Init!8 /\ Init!11 /\ Init!12
  /\ InitChats!2 /\ InitChats!3 /\ InitChats!4 /\ InitChats!5
  /\ InitChats!6 /\ InitChats!7
  /\ \E kinds \in HistoricLogs :
       /\ messages = [c \in ChatKeys |->
                        IF c \in {1, 2}
                        THEN [i \in DOMAIN kinds |-> HistoricEntry(i, kinds[i])]
                        ELSE <<>>]
       /\ usedMsgs = DOMAIN kinds

\* a reads pages of the group and of the DM chat
NextDecode ==
  \/ GroupRangeStart(1, {"a"}, {2}, {0, 0 - 1})
  \/ GroupRangeSismember(1)
  \/ GroupRangeType(1)
  \/ GroupRangeZrevrange(1)
  \/ DMRangeStart(1, {"a"}, {1}, {0, 0 - 1})
  \/ DMRangeSismember(1)
  \/ DMRangeType(1)
  \/ DMRangeZrevrange(1)

SpecDecode == InitDecode /\ [][NextDecode]_vars

\* b sends to the group of a and b while a and b add, remove and leave
NextSendLeave ==
  \/ GroupSendStep(1, {"b"}, {1})
  \/ MembershipStep(2, {"a", "b"}, {1})

SpecSendLeave == InitMsg /\ [][NextSendLeave]_vars

\* ------------------------------------------------------------------------
\* Claims on the friend graph (SpecFriends)
\* ------------------------------------------------------------------------

\* the last step answered acceptRequest(a, s) with success
AcceptReturnedOK == resp.op = "acceptRequest" /\ resp.status = 200

\* C1: whenever acceptRequest(A, B) returns success, B is in A.friends, A is
\* in B.friends and no request between A and B is pending in either direction.
C1_AcceptLeavesEdgeAndNoRequest ==
  AcceptReturnedOK =>
    /\ resp.other \in friends[resp.me]
    /\ resp.me \in friends[resp.other]
    /\ resp.other \notin requests[resp.me]
    /\ resp.me \notin requests[resp.other]

\* C2: in every quiescent state a friend edge and a pending request never
\* coexist for the same pair of users.
C2_RequestAndEdgeExclusive ==
  Quiescent =>
    \A a \in Users, b \in Users :
      b \in friends[a] => (a \notin requests[b] /\ b \notin requests[a])

\* ------------------------------------------------------------------------
\* Claims on DM sessions (SpecDM, SpecDMSeq)
\* ------------------------------------------------------------------------

\* C3: once all concurrent getOrCreateDM calls have completed, the DM index
\* is symmetric: a.dms[b] = b.dms[a] whenever both entries exist.
C3_DMIndexSymmetric ==
  Quiescent =>
    \A a \in Users, b \in Users :
      (dms[a][b] # NullChat /\ dms[b][a] # NullChat) => dms[a][b] = dms[b][a]

\* the last step answered a getOrCreateDM call with a chat id
DMReturned == resp.op \in DMOps /\ resp.status = 200

\* C4: with calls that do not overlap, every getOrCreateDM(A,B) returns the
\* id that both A.dms[B] and B.dms[A] hold, an index entry never changes once
\* written, and a call that finds its entry writes nothing and allocates no
\* chat id; so repeated calls by either participant return one chatId.
C4_SequentialDMIdempotent ==
  [][ /\ DMReturned' =>
           /\ dms'[resp'.me][resp'.other] = resp'.cid
           /\ dms'[resp'.other][resp'.me] = resp'.cid
           /\ resp'.cid # NullChat
      /\ \A a \in Users, b \in Users :
           dms[a][b] # NullChat => dms'[a][b] = dms[a][b]
      /\ (procs[1].pc = "hget" /\ dms[procs[1].me][procs[1].other] # NullChat) =>
           (store' = store /\ nextChat' = nextChat /\ DMReturned')
    ]_vars

\* a call by one participant has just returned the chat the other created
C4_Witness ==
  /\ DMReturned
  /\ resp.cid # NullChat
  /\ meta[resp.cid].user1 = resp.other
  /\ meta[resp.cid].type = "dms"

\* the dm chats of the pair {a, b}: a membership set and metadata of type dms
DMChatsOf(a, b) ==
  {c \in ChatKeys : members[c] = {a, b} /\ meta[c].type = "dms"}

\* C5: after any getOrCreateDM calls, concurrent ones included, exactly one dm
\* chat exists per unordered pair of users that has a DM.
C5_OneDMChatPerPair ==
  Quiescent =>
    \A a \in Users, b \in Users :
      (dms[a][b] # NullChat \/ dms[b][a] # NullChat) =>
        Cardinality(DMChatsOf(a, b)) = 1

\* ------------------------------------------------------------------------
\* Claims on groups
\* ------------------------------------------------------------------------

\* C6: whenever no handler is in flight, a chat is in a user's group index
\* exactly when the user is in the chat's membership set, whatever the
\* interleaving of the membership handlers was.
C6_GroupIndexMatchesMembership ==
  Quiescent =>
    \A u \in Users, c \in ChatIds : (c \in groups[u]) <=> (u \in members[c])

CreateGroupReturned == resp.op = "createGroup" /\ resp.status = 200

\* C7: a group that createGroup has just created holds at least three distinct
\* users.
C7_CreatedGroupHasThreeUsers ==
  CreateGroupReturned => Cardinality(members[resp.cid]) >= 3

\* C8: a requester who is not a member of the chat is refused by getMeta, range
\* and append with Unauthorized or Forbidden, never with Conflict or NotFound,
\* whether the chat exists or not.
C8_NonMemberIsRefused ==
  (/\ resp.op \in GetMetaOps \cup {"range", "append"}
   /\ resp.me \notin members[resp.chat])
    => resp.status \in {401, 403}

\* C9: after the last member has left and the chat has been cleaned up, getMeta
\* answers NotFound.
C9_GetMetaAfterLastLeaveNotFound ==
  (/\ resp.op \in GetMetaOps
   /\ resp.chat <= nextChat
   /\ meta[resp.chat] = NoMeta)
    => resp.status = 404

\* ------------------------------------------------------------------------
\* Claims on the message log
\* ------------------------------------------------------------------------

\* the messages of the chat, as a set
Stored(c) == {JSONParse(messages[c][i].member) : i \in 1..Len(messages[c])}

\* C10: a page of range never shows a message before one with a later
\* timestamp, and range(0, -1) returns every stored message exactly once: with
\* m1 older than m2 stored, it returns [m2, m1].
C10_RangeNewestFirst ==
  [][\A p \in Procs :
       (procs[p].op = "range" /\ procs[p].pc = "zrevrange" /\ procs'[p] = Idle)
         => LET r == resp'.msgs
                c == procs[p].chat
            IN /\ \A i, j \in 1..Len(r) :
                    i < j => r[i].timestamp >= r[j].timestamp
               /\ (procs[p].lo = 0 /\ procs[p].hi = 0 - 1)
                    => /\ Len(r) = Len(messages[c])
                       /\ {r[i] : i \in 1..Len(r)} = Stored(c)]_vars

\* a page with two messages of different timestamps
C10_Witness ==
  /\ resp.op = "range" /\ resp.status = 200
  /\ Len(resp.msgs) = 2
  /\ resp.msgs[1].timestamp > resp.msgs[2].timestamp

\* the message stored at rank k of the chat, the newest at rank 0
AtRank(c, k) == messages[c][Len(messages[c]) - k].member.val

\* C11: the message a successful append returns is stored as it is, stored
\* messages stay, and a page of range holds, for every rank its window covers,
\* an entry with the id, senderId, text and timestamp of the message stored
\* at that rank.
C11_RangeRoundTrip ==
  [][\A p \in Procs :
       LET q == procs[p]
           c == q.chat
           n == Len(messages[c])
       IN /\ (q.op \in {"append", "dmAppend"} /\ q.pc = "hset" /\ procs'[p] = Idle)
               => /\ resp'.status = 201
                  /\ resp'.msgs = <<q.msg>>
                  /\ \E k \in 0..(n - 1) : AtRank(c, k) = q.msg
          /\ \A k \in 0..(n - 1) :
               \E k2 \in 0..(Len(messages'[c]) - 1) :
                 messages'[c][Len(messages'[c]) - k2].member.val = AtRank(c, k)
          /\ (q.op \in {"range", "dmRange"} /\ q.pc = "zrevrange" /\ procs'[p] = Idle)
               => \A k \in 0..(n - 1) :
                    (ZIndex(q.lo, n) <= k /\ k <= ZIndex(q.hi, n))
                      => \E i \in 1..Len(resp'.msgs) :
                           /\ resp'.msgs[i].id = AtRank(c, k).id
                           /\ resp'.msgs[i].senderId = AtRank(c, k).senderId
                           /\ resp'.msgs[i].text = AtRank(c, k).text
                           /\ resp'.msgs[i].timestamp = AtRank(c, k).timestamp]_vars

\* a page of the DM chat that holds a message an earlier append returned, next
\* to another one
C11_Witness ==
  /\ resp.op = "dmRange" /\ resp.status = 200
  /\ Len(resp.msgs) = 2
  /\ resp.msgs[1].id # resp.msgs[2].id
  /\ \A i \in 1..2 : resp.msgs[i].text = "hi" /\ resp.msgs[i].senderId \in {"a", "b"}

\* ------------------------------------------------------------------------
\* Claims on the friend request handlers (SpecFriends)
\* ------------------------------------------------------------------------

\* C12: sendRequest inserts the sender into the receiver's incoming requests
\* only when, between the two, no request is pending in either direction and
\* they are not friends.
C12_SendRequestOnlyFromNone ==
  [][\A p \in Procs :
       LET q == procs[p] IN
       (q.op = "sendRequest" /\ q.pc = "sadd" /\ requests' # requests)
         => /\ q.me \notin requests[q.other]
            /\ q.other \notin requests[q.me]
            /\ q.other \notin friends[q.me]
            /\ q.me \notin friends[q.other]]_vars

\* C13: acceptRequest answers Conflict when the two are friends already and
\* NotFound when the sender has no request pending with the accepter, and
\* writes nothing in either case.
C13_AcceptFailures ==
  [][\A p \in Procs :
       LET q == procs[p] IN
       /\ (q.op = "acceptRequest" /\ q.pc = "areAlreadyFriends"
             /\ procs'[p] # q /\ q.other \in friends[q.me])
            => resp'.status = 409 /\ UNCHANGED store
       /\ (q.op = "acceptRequest" /\ q.pc = "hasFriendRequest"
             /\ procs'[p] # q /\ q.other \notin requests[q.me])
            => resp'.status = 404 /\ UNCHANGED store]_vars

\* C13, as the handler answers: acceptRequest answers 400 "Already friends"
\* when the two are friends already and 400 "No friend request" when the
\* sender has no request pending with the accepter, and writes nothing in
\* either case.
C13_AcceptFailuresBadRequest ==
  [][\A p \in Procs :
       LET q == procs[p] IN
       /\ (q.op = "acceptRequest" /\ q.pc = "areAlreadyFriends"
             /\ procs'[p] # q /\ q.other \in friends[q.me])
            => /\ resp'.status = 400 /\ resp'.body = "Already friends"
               /\ procs'[p] = Idle
               /\ UNCHANGED store
       /\ (q.op = "acceptRequest" /\ q.pc = "hasFriendRequest"
             /\ procs'[p] # q /\ q.other \notin requests[q.me])
            => /\ resp'.status = 400 /\ resp'.body = "No friend request"
               /\ procs'[p] = Idle
               /\ UNCHANGED store]_vars

\* an accepter is told that the sender is a friend already
C13_Witness ==
  /\ resp.op = "acceptRequest" /\ resp.status = 400
  /\ resp.body = "Already friends"
  /\ resp.other \in friends[resp.me]

\* C14: denyRequest by an authenticated accepter answers success and leaves the
\* sender out of the accepter's incoming requests.
C14_DenyAlwaysSucceeds ==
  resp.op \in {"denyRequest", "denyRequestBearer"}
    => resp.status = 200 /\ resp.other \notin requests[resp.me]

\* C15: a sendRequest that has passed its checks issues the insert whether the
\* event was published or not.
C15_PublishFailureKeepsInsert ==
  [][\A p \in Procs :
       LET q == procs[p] IN
       (q.op = "sendRequest" /\ q.pc = "trigger" /\ procs'[p] # q)
         => procs'[p].op = "sendRequest" /\ procs'[p].pc = "sadd"]_vars

\* C16: an acceptRequest that has written the friend edge and removed the
\* request answers success.
C16_AcceptAfterWriteSucceeds ==
  [][\A p \in Procs :
       LET q == procs[p] IN
       (q.op = "acceptRequest" /\ q.pc = "trigger" /\ procs'[p] # q)
         => resp'.status = 200]_vars

\* C17: when sendRequest answers success the sender is in the receiver's
\* incoming requests.
C17_SendRequestOKIsRecorded ==
  (resp.op = "sendRequest" /\ resp.status = 200)
    => resp.me \in requests[resp.other]

\* ------------------------------------------------------------------------
\* Claims on DM chats
\* ------------------------------------------------------------------------

\* C18: getOrCreateDM answers Unauthorized to a caller who does not have the
\* other user in the friend set, and then writes no index entry, membership set
\* or metadata and names no chat; every index entry and every pair of members
\* of a chat is a pair of friends.
C18_DMOnlyBetweenFriends ==
  [][/\ \A p \in Procs :
          LET q == procs[p] IN
          (q.op \in DMOps /\ q.pc = "isFriend" /\ procs'[p] # q
             /\ q.other \notin friends[q.me])
            => /\ resp'.status = 401
               /\ procs'[p] = Idle
               /\ UNCHANGED <<store, nextChat>>
     /\ \A u \in Users, v \in Users :
          dms'[u][v] # NullChat => v \in friends'[u]
     /\ \A c \in ChatIds : \A u \in members'[c], v \in members'[c] :
          u # v => v \in friends'[u]]_vars

\* a caller is refused a DM with a user who is not a friend, while a DM chat of
\* two friends exists
C18_Witness ==
  /\ resp.op \in DMOps /\ resp.status = 401
  /\ resp.other # resp.me
  /\ resp.other \notin friends[resp.me]
  /\ \E c \in ChatIds : Cardinality(members[c]) = 2

\* C19: when getOrCreateDM has returned the chat id c, both index entries of
\* the pair hold c, the members of c are the caller and the other user, and the
\* metadata of c has the type dms, createdAt, user1 and user2.
C19_CreatedDMIsComplete ==
  DMReturned =>
    /\ dms[resp.me][resp.other] = resp.cid
    /\ dms[resp.other][resp.me] = resp.cid
    /\ members[resp.cid] = {resp.me, resp.other}
    /\ meta[resp.cid].type = "dms"
    /\ meta[resp.cid].createdAt # 0
    /\ {meta[resp.cid].user1, meta[resp.cid].user2} = {resp.me, resp.other}

\* C20: in every state the members of every chat of type dms are exactly two
\* users.
C20_DMHasTwoMembers ==
  \A c \in ChatIds : meta[c].type = "dms" => Cardinality(members[c]) = 2

MembershipOps == {"addMember", "removeMember", "leave"}

\* C20, for the states between the handlers: whenever no handler is in flight
\* the members of every chat of type dms are exactly two users, and no step of
\* addMember, removeMember or leave changes the members of a chat that is in
\* the DM index or has the type dms.
C20_DMMembershipFixed ==
  [][/\ Quiescent' =>
          \A c \in ChatIds : meta'[c].type = "dms" => Cardinality(members'[c]) = 2
     /\ \A p \in Procs :
          (procs[p].op \in MembershipOps /\ procs'[p] # procs[p])
            => \A c \in ChatIds :
                 (\/ meta[c].type = "dms"
                  \/ \E u \in Users, v \in Users : dms[u][v] = c)
                   => members'[c] = members[c]]_vars

\* a membership handler has answered a call that targets a DM chat
C20_Witness ==
  /\ resp.op \in MembershipOps
  /\ meta[resp.chat].type = "dms"
  /\ Cardinality(members[resp.chat]) = 2

\* C27: a friend edge is never destroyed: a user who is in another's friends is
\* in them after every step of every handler.
C27_FriendEdgesStay ==
  [][\A a \in Users, b \in Users :
       b \in friends[a] => b \in friends'[a]]_vars

\* a has just denied a request of b, who is a friend of a
C27_Witness ==
  /\ resp.op = "denyRequest" /\ resp.status = 200
  /\ resp.other \in friends[resp.me]
  /\ resp.me \in friends[resp.other]

\* ------------------------------------------------------------------------
\* Claims on leave, add-member, remove-member (calls one after the other)
\* ------------------------------------------------------------------------

\* C21: when a leave that has removed the last member answers, the metadata,
\* the membership set and the message log of the chat are absent; a leave
\* deletes metadata or messages only when no member is left.
C21_LeaveCleansUpWhenEmpty ==
  [][\A p \in Procs :
       LET q == procs[p]
           c == q.chat
       IN (q.op = "leave" /\ procs'[p] # q)
            => /\ (procs'[p] = Idle /\ resp'.status = 200 /\ members'[c] = {})
                    => meta'[c] = NoMeta /\ messages'[c] = <<>>
               /\ (meta'[c] = NoMeta /\ meta[c] # NoMeta) => members[c] = {}
               /\ (messages'[c] # messages[c]) => members[c] = {}
               /\ (procs'[p] = Idle /\ resp'.status = 200 /\ members'[c] # {})
                    => /\ meta'[c].type = "group"
                       /\ messages'[c] = messages[c]]_vars

\* the last member has left a group that had a message in its log
C21_Witness ==
  /\ resp.op = "leave" /\ resp.status = 200
  /\ meta[resp.chat] = NoMeta /\ members[resp.chat] = {}
  /\ messages[resp.chat] = <<>>
  /\ usedMsgs # {}

\* C22: a leave on a chat that is unknown or not a group, or by a caller who is
\* not a member, is rejected and writes nothing, the non-member with Forbidden;
\* a leave takes nobody but the caller out of the membership set of the chat,
\* nothing but the chat out of the caller's group index, and touches no other
\* chat.
C22_LeaveChecksAndFrame ==
  [][\A p \in Procs :
       LET q == procs[p]
           c == q.chat
       IN (q.op = "leave" /\ procs'[p] # q)
            => /\ (q.pc = "hgetall" /\ meta[c].type # "group")
                    => /\ procs'[p] = Idle /\ resp'.status \in {404, 409}
                       /\ UNCHANGED store
               /\ (q.pc = "sismember" /\ q.me \notin members[c])
                    => /\ procs'[p] = Idle /\ resp'.status = 403
                       /\ UNCHANGED store
               /\ resp'.status = 200 => meta[c].type \in {"group", ""}
               /\ members[c] \ members'[c] \subseteq {q.me}
               /\ members'[c] \subseteq members[c]
               /\ groups[q.me] \ groups'[q.me] \subseteq {c}
               /\ groups'[q.me] \subseteq groups[q.me]
               /\ \A u \in Users \ {q.me} : groups'[u] = groups[u]
               /\ \A d \in ChatKeys \ {c} :
                    /\ members'[d] = members[d]
                    /\ meta'[d] = meta[d]
                    /\ messages'[d] = messages[d]
               /\ UNCHANGED <<friends, requests, dms>>]_vars

\* a user who has left the group tries to leave it again
C22_Witness ==
  /\ resp.op = "leave" /\ resp.status = 403
  /\ meta[resp.chat].type = "group"
  /\ resp.me \notin members[resp.chat]
  /\ members[resp.chat] # {}

\* C23: add-member on a chat whose type is not group answers 409 and writes
\* nothing; add-member of a user who is a member answers 409 and leaves the
\* membership set, the group indexes and the metadata as they were; an
\* add-member that answers 200 has the user in the membership set, the chat in
\* the user's group index and updatedAt set to the time of the call.
C23_AddMemberChecksAndEffect ==
  [][\A p \in Procs :
       LET q == procs[p]
           c == q.chat
       IN (q.op = "addMember" /\ procs'[p] # q)
            => /\ (q.pc = "type" /\ meta[c].type # "group")
                    => /\ procs'[p] = Idle /\ resp'.status = 409
                       /\ UNCHANGED store
               /\ (q.pc = "sadd" /\ q.other \in members[c])
                    => /\ procs'[p] = Idle /\ resp'.status = 409
                       /\ UNCHANGED store
               /\ resp'.status = 200
                    => /\ q.other \in members'[c]
                       /\ c \in groups'[q.other]
                       /\ meta'[c].type = "group"
                       /\ meta'[c].updatedAt = clock]_vars

\* a user who had left the group has been added to it again
C23_Witness ==
  /\ resp.op = "addMember" /\ resp.status = 200
  /\ resp.chat = 2 /\ resp.other \in members[2]
  /\ 2 \in groups[resp.other]
  /\ messages[2] # <<>>

\* C24: a remove-member whose actor is not the chat's creator changes nothing
\* in the store; a remove-member by the creator for a member takes that user
\* out of the membership set and the chat out of that user's group index, and
\* touches no other member and no other user's group index.
C24_RemoveMemberOnlyByCreator ==
  [][\A p \in Procs :
       LET q == procs[p]
           c == q.chat
       IN (q.op = "removeMember" /\ procs'[p] # q)
            => /\ meta[c].createdBy # q.me
                    => procs'[p] = Idle /\ UNCHANGED store
               /\ (q.pc = "srem" /\ q.other \in members[c])
                    => members'[c] = members[c] \ {q.other}
               /\ (resp'.status = 200 /\ meta[c].createdBy = q.me)
                    => q.other \notin members'[c] /\ c \notin groups'[q.other]
               /\ members[c] \ members'[c] \subseteq {q.other}
               /\ \A u \in Users \ {q.other} : groups'[u] = groups[u]
               /\ \A d \in ChatKeys \ {c} : members'[d] = members[d]]_vars

\* a member who is not the creator has asked to remove another member, who is
\* still in the group
C24_Witness ==
  /\ resp.op = "removeMember" /\ resp.status = 200
  /\ meta[resp.chat].type = "group"
  /\ meta[resp.chat].createdBy \notin {NoUser, resp.me}
  /\ {resp.me, resp.other} \subseteq members[resp.chat]
  /\ resp.me # resp.other

\* ------------------------------------------------------------------------
\* Claims on update-meta (SpecMetaSeq)
\* ------------------------------------------------------------------------

\* C25: update-meta is for the creator only. On an existing chat, group or dm,
\* a call by a user who is not the chat's creator is answered 403 and leaves
\* the metadata as it was; a call whose name is empty after trim is answered
\* 422 and changes nothing; the call that answers 200 was made by the creator
\* and has set name to the trimmed name and updatedAt to the time of the call.
C25_UpdateMetaCreatorOnly ==
  [][\A p \in Procs :
       LET q == procs[p]
           c == q.chat
       IN /\ (q.op = "updateMeta" /\ procs'[p] # q)
            => /\ (q.pc = "hgetall" /\ meta[c] # NoMeta
                                     /\ meta[c].createdBy # q.me)
                    => /\ procs'[p] = Idle /\ resp'.status = 403
                       /\ UNCHANGED store
               /\ resp'.status = 200
                    => /\ meta[c].createdBy = q.me
                       /\ meta'[c].name = Trim(q.name)
                       /\ meta'[c].updatedAt = q.ts
          /\ (resp'.op = "updateMeta" /\ resp'.status = 422) => UNCHANGED store
          /\ (q.op = "idle" /\ procs'[p].op = "updateMeta")
               => Len(Trim(procs'[p].name)) > 0]_vars

\* ------------------------------------------------------------------------
\* Claims on overlapping calls on one group (SpecGroup)
\* ------------------------------------------------------------------------

\* C26: whenever no handler is in flight, a chat of which the metadata, the
\* membership set or the message log exists has metadata with its type and its
\* creation fields, whatever the interleaving of the handlers was.
C26_ChatRecordConsistent ==
  Quiescent =>
    \A c \in ChatIds :
      (meta[c] # NoMeta \/ members[c] # {} \/ messages[c] # <<>>)
        => /\ meta[c].type # ""
           /\ meta[c].createdAt # 0
           /\ meta[c].createdBy # NoUser \/ meta[c].user1 # NoUser

\* ------------------------------------------------------------------------
\* Claims on what is never destroyed
\* ------------------------------------------------------------------------

\* C28: messages are never mutated or deleted: a message that is in a chat's
\* log is in it, with the same score and the same fields, after every step of
\* every handler.
C28_MessagesStay ==
  [][\A c \in ChatKeys : \A i \in DOMAIN messages[c] :
       \E j \in DOMAIN messages'[c] : messages'[c][j] = messages[c][i]]_vars

\* C28 as it holds: a message that is in a chat's log stays in it, with the
\* same score and the same fields, until the clean-up of a leave that found
\* the chat without members deletes the whole log.
C28_MessagesStayUntilCleanup ==
  [][\A c \in ChatKeys :
       \/ \A i \in DOMAIN messages[c] :
            \E j \in DOMAIN messages'[c] : messages'[c][j] = messages[c][i]
       \/ /\ \E p \in Procs : /\ procs[p].op = "leave" /\ procs[p].pc = "del"
                                /\ procs[p].chat = c
          /\ members[c] = {}
          /\ messages'[c] = <<>>]_vars

\* a member has left the group and the two messages sent to it are in its log
C28_Witness ==
  /\ resp.op = "leave" /\ resp.status = 200
  /\ Len(messages[resp.chat]) = MaxMsgs
  /\ members[resp.chat] # {}

\* C29: DM chats are never destroyed: a chat with the type dms and a membership
\* set keeps its metadata, its members, every message of its log and every
\* entry of the DM index that names it, through every step of every handler.
C29_DMChatsStay ==
  [][\A c \in ChatIds :
       (meta[c].type = "dms" /\ members[c] # {})
         => /\ meta'[c].type = "dms"
            /\ meta'[c].createdAt = meta[c].createdAt
            /\ meta'[c].user1 = meta[c].user1
            /\ meta'[c].user2 = meta[c].user2
            /\ members[c] \subseteq members'[c]
            /\ \A i \in DOMAIN messages[c] :
                 \E j \in DOMAIN messages'[c] : messages'[c][j] = messages[c][i]
            /\ \A u \in Users, v \in Users :
                 dms[u][v] = c => dms'[u][v] = c]_vars

\* a participant of the DM chat has asked to leave it, after a message was sent
\* to it and the group was emptied and cleaned up
C29_Witness ==
  /\ resp.op = "leave" /\ resp.me \in members[resp.chat]
  /\ meta[resp.chat].type = "dms"
  /\ messages[resp.chat] # <<>>
  /\ \E c \in ChatIds : meta[c] = NoMeta /\ nextChat >= c

\* ------------------------------------------------------------------------
\* Claims on the group list (SpecListSeq)
\* ------------------------------------------------------------------------

ListGroupsReturned == resp.op = "listGroups" /\ resp.status = 200

C31_AcceptWritesEdgeFirst ==
  [][\A p \in Procs :
       LET q == procs[p] IN
       (q.op = "acceptRequest" /\ q.pc = "write" /\ procs'[p] # q)
         => /\ (q.other \in requests[q.me] /\ q.other \notin requests'[q.me])
                 => q.other \in friends[q.me] /\ q.me \in friends[q.other]
            /\ \/ q.other \in requests'[q.me]
               \/ q.other \in friends'[q.me]
               \/ q.me \in friends'[q.other]
               \/ q.other \notin requests[q.me]]_vars

\* C36: when deny(A, B) has answered 200, no accept(A, B) is left that will
\* still write the friend entries of A and B: the two do not become friends
\* without a new request.
C36_DenyIsFinal ==
  (resp.op = "denyRequest" /\ resp.status = 200)
    => \A p \in Procs :
         LET q == procs[p] IN
         ~(/\ q.op = "acceptRequest" /\ q.pc = "write"
           /\ q.me = resp.me /\ q.other = resp.other
           /\ q.w \cap {1, 2} # {})

\* C39: a friend entry is written only by an accept, between two different
\* users; an accept goes on to its writes only when the other user is in the
\* accepter's incoming requests; and a user enters another's incoming requests
\* only by a sendRequest of their own.  So nobody is their own friend and
\* nobody becomes a friend by their own calls alone.
C39_EdgeOnlyFromAcceptedRequest ==
  [][/\ \A a \in Users, b \in Users :
          (b \notin friends[a] /\ b \in friends'[a])
            => /\ a # b
               /\ \E p \in Procs :
                    /\ procs[p].op = "acceptRequest" /\ procs[p].pc = "write"
                    /\ {procs[p].me, procs[p].other} = {a, b}
     /\ \A p \in Procs :
          (/\ procs[p].op = "acceptRequest"
           /\ procs[p].pc = "hasFriendRequest" /\ procs'[p].pc = "write")
            => /\ procs[p].other \in requests[procs[p].me]
               /\ procs[p].other # procs[p].me
     /\ \A a \in Users, b \in Users :
          (b \notin requests[a] /\ b \in requests'[a])
            => /\ a # b
               /\ \E p \in Procs :
                    /\ procs[p].op = "sendRequest"
                    /\ procs[p].me = b /\ procs[p].other = a]_vars

\* b has accepted the request a had sent, and the two are friends
C39_Witness ==
  /\ AcceptReturnedOK
  /\ resp.me = "b" /\ resp.other = "a"
  /\ "a" \in friends["b"] /\ "b" \in friends["a"]

\* ------------------------------------------------------------------------
\* Claims on the lastMessage cache and on decoding
\* ------------------------------------------------------------------------

\* C32: after appends that do not overlap, the lastMessage of a chat is the
\* entry that range(chatId, 0, 0) returns.
C32_LastMessageIsNewest ==
  \A c \in ChatIds :
    (Quiescent /\ messages[c] # <<>>)
      => <<JSONParse(meta[c].lastMessage)>>
           = GroupRangeResults(ZRevRange(messages[c], 0, 0))

\* the messages of the raw items that are JSON or the JSON of a JSON string,
\* in the order of the page
Decodable(rawResults) ==
  LET ok == SelectSeq(rawResults, LAMBDA x : x.enc \in {1, 2})
  IN [i \in 1..Len(ok) |-> ok[i].val]

\* C33: a page of range is answered 200 and holds, in the order of the log, the
\* message of every entry stored single-encoded or double-encoded; an entry that
\* cannot be decoded is left out.
C33_RangeDecodesEachEntry ==
  [][\A p \in Procs :
       LET q == procs[p] IN
       (q.op \in {"range", "dmRange"} /\ q.pc = "zrevrange" /\ procs'[p] = Idle)
         => /\ resp'.status = 200
            /\ resp'.msgs = Decodable(ZRevRange(messages[q.chat], q.lo, q.hi))]_vars

\* C34: an accept that answers 200 has emitted exactly two events, with both
\* friend entries written: the accepter's profile on the sender's channel and
\* the sender's profile on the accepter's channel; an accept that is rejected
\* has emitted none.
C34_AcceptEmitsTwoEvents ==
  resp.op = "acceptRequest"
    => /\ resp.status = 200
            => /\ Len(resp.msgs) = 2
               /\ resp.msgs[1] = [channel |-> resp.other, event |-> "new_friend",
                                  data |-> resp.me]
               /\ resp.msgs[2] = [channel |-> resp.me, event |-> "new_friend",
                                  data |-> resp.other]
               /\ resp.other \in friends[resp.me]
               /\ resp.me \in friends[resp.other]
       /\ resp.status = 400 => resp.msgs = <<>>

\* b has accepted the request of a and both events are out
C34_Witness ==
  /\ AcceptReturnedOK
  /\ resp.me # resp.other
  /\ Len(resp.msgs) = 2
  /\ requests[resp.me] = {}

\* ------------------------------------------------------------------------
\* Claims on who may change a group, and on what a removal leaves behind
\* ------------------------------------------------------------------------

\* C35: a user enters the membership set of a group only by the member list of
\* createGroup or by an add-member whose actor is, at that step, a member or
\* the creator of the group.
C35_OnlyMembersAddMembers ==
  [][\A c \in ChatIds, u \in Users :
       (meta[c].type = "group" /\ u \notin members[c] /\ u \in members'[c])
         => \E p \in Procs :
              LET q == procs[p] IN
              /\ q.chat = c /\ procs'[p] # q
              /\ \/ q.op = "createGroup"
                 \/ /\ q.op = "addMember" /\ q.other = u
                    /\ q.me \in members[c] \/ q.me = meta[c].createdBy]_vars

\* C37: every message of a group's log was written while its sender was a
\* member: the zadd of a send finds the sender in the membership set.
C37_SenderIsMemberAtWrite ==
  [][\A p \in Procs :
       LET q == procs[p] IN
       (q.op = "append" /\ q.pc = "zadd" /\ procs'[p] # q)
         => q.me \in members[q.chat]]_vars

\* C38: whenever no handler is in flight, no group with metadata has an empty
\* membership set: the removal of the last member deletes the chat.
C38_NoEmptyGroup ==
  Quiescent =>
    \A c \in ChatIds : meta[c].type = "group" => members[c] # {}

====
